---- MODULE Spec2Model ----
(***************************************************************************)
(* CyberBud (pydanticConvoAgent): the Streamlit page script app.py, the    *)
(* sidebar handlers, the quiz helpers and the SQLite store, as a state     *)
(* machine.  One step is one run of the page script main(): either the     *)
(* run a widget event starts, or the run st.rerun() starts.                *)
(***************************************************************************)
EXTENDS Integers, Sequences, FiniteSets, TLC

\* ------------------------------------------------------------------------
\* Program constants
\* ------------------------------------------------------------------------
MAX_MESSAGES_PER_SESSION == 25
\* start_quiz_mode: db.get_concepts_for_quiz(limit=3)
QUIZ_LIMIT == 3
\* datetime('now', '-7 days') in the two selection queries
REVIEW_DAYS == 7
\* SQL NULL of a TIMESTAMP column / Python None of an id (real values are >= 1)
NULL == 0

\* ------------------------------------------------------------------------
\* Bounds of the model
\* ------------------------------------------------------------------------
\* rows the sessions table may ever have been given (AUTOINCREMENT counter)
MaxSessions == 2
\* rows the messages table may hold: a chat turn stores its user message,
\* and its reply if the service gave one
MaxMsgRows == 2
\* last day of the clock
MaxNow == 9
\* days one Tick lets pass
TickDays == 8
\* the clock's resolution: time units in a day (8: a unit is three hours)
DayLength == 8
\* SpecDb: the largest times_discussed a concept is brought to
MaxDiscussed == 2
\* SpecCap: rows the messages table may hold (26 chat turns)
MaxCapRows == 52
\* SpecExtract: words in a text given to extract_concepts
MaxWords == 3
\* SpecSessions: rows the sessions table may ever have been given
MaxSessionRows == 4

Letters == <<"A", "B", "C", "D">>
LetterSet == {"A", "B", "C", "D"}

\* Python None for the optional quiz_state / parse result: the empty tuple;
\* a present value v is <<v>>.
None == <<>>
Some(v) == <<v>>

\* ------------------------------------------------------------------------
\* Texts are tuples of one-character strings.
\* ------------------------------------------------------------------------
Lower(c) ==
    CASE c = "A" -> "a" [] c = "C" -> "c" [] c = "E" -> "e" [] c = "H" -> "h"
      [] c = "I" -> "i" [] c = "R" -> "r" [] c = "S" -> "s" [] c = "V" -> "v"
      [] c = "W" -> "w"
      [] OTHER -> c

\* str.lower()
lower(t) == [i \in 1..Len(t) |-> Lower(t[i])]

\* Python's `k in t` for strings: k is a substring of t
Contains(t, k) ==
    \E i \in 0..(Len(t) - Len(k)) : \A j \in 1..Len(k) : t[i + j] = k[j]

\* CONCEPT_KEYWORDS, cut down to four categories and six entries that keep
\* the table's shapes: a keyword inside another one (SHA, SHA-1), a keyword
\* listed under two categories (exploit), upper-case keywords (IR, CVE).
CONCEPT_KEYWORDS == <<
    [category |-> "Cryptography",
     keywords |-> << <<"S","H","A">>, <<"S","H","A","-","1">> >>],
    [category |-> "Malware",
     keywords |-> << <<"w","o","r","m">>, <<"e","x","p","l","o","i","t">> >>],
    [category |-> "Incident Response",
     keywords |-> << <<"I","R">> >>],
    [category |-> "Vulnerabilities",
     keywords |-> << <<"C","V","E">>, <<"e","x","p","l","o","i","t">> >> ] >>

\* the (keyword, category) pairs of the table in iteration order
RECURSIVE FlattenKeywords(_)
FlattenKeywords(tbl) ==
    IF tbl = <<>> THEN <<>>
    ELSE [i \in 1..Len(Head(tbl).keywords) |->
             [name |-> Head(tbl).keywords[i], category |-> Head(tbl).category]]
         \o FlattenKeywords(Tail(tbl))

\* a variant that keeps every entry found
Unique_all(found, seen) == found

\* the second loop of extract_concepts: keep the first entry of each
\* lower-cased name
RECURSIVE Unique(_, _)
Unique(found, seen) ==
    IF found = <<>> THEN <<>>
    ELSE IF lower(Head(found).name) \in seen
         THEN Unique(Tail(found), seen)
         ELSE <<Head(found)>> \o Unique(Tail(found), seen \cup {lower(Head(found).name)})

\* a variant without the second loop
extract_concepts_found(text) ==
    SelectSeq(FlattenKeywords(CONCEPT_KEYWORDS),
              LAMBDA e : Contains(lower(text), lower(e.name)))

extract_concepts(text) ==
    LET text_lower == lower(text)
        all == FlattenKeywords(CONCEPT_KEYWORDS)
        found == SelectSeq(all, LAMBDA e : Contains(text_lower, lower(e.name)))
    IN Unique(found, {})

\* ------------------------------------------------------------------------
\* Inputs: what the user types and what the LLM service answers
\* ------------------------------------------------------------------------
\* typed chat input
UserTexts == { <<"h","i">> }
\* the reply of the LLM service to a chat turn: "SHA-1" (two keywords: it
\* also contains SHA)
ReplyTexts == { <<"S","H","A","-","1">> }
\* the replies under SpecQuiz: one, two and three concepts (exploit is found
\* under two categories and is one concept)
LessonTexts ==
    { <<"e","x","p","l","o","i","t">>, <<"S","H","A","-","1">>,
      <<"S","H","A","-","1"," ","C","V","E">> }

\* the f-string of main(): "Explain {concept_name} to me. What is it, ..."
ExplainPrompt(concept_name) ==
    <<"Explain ">> \o concept_name \o <<" to me. What is it, why does it matter in cybersecurity, and give me an example.">>

\* ------------------------------------------------------------------------
\* State
\* ------------------------------------------------------------------------
VARIABLES
    db,             \* the SQLite file: its four tables and sqlite_sequence
    now,            \* the clock (UTC), in time units
    tz,             \* the host's local time minus UTC, in time units
    session_state,  \* st.session_state of the one browser session
    rerun,          \* TRUE while a run of the page script is pending
    ev              \* what the last step did (history, for the properties)

vars == <<db, now, tz, session_state, rerun, ev>>

\* datetime.now(): the host's local time (what end_session and
\* update_concept_understanding store; CURRENT_TIMESTAMP and datetime('now')
\* in the SQL are UTC)
LocalNow == now + tz

\* ------------------------------------------------------------------------
\* database.py: each operation maps the database d to the database after it
\* ------------------------------------------------------------------------
UpdateWhere(tbl, P(_), F(_)) ==
    [i \in 1..Len(tbl) |-> IF P(tbl[i]) THEN F(tbl[i]) ELSE tbl[i]]

DeleteWhere(tbl, P(_)) == SelectSeq(tbl, LAMBDA r : ~P(r))

Rows(tbl) == {tbl[i] : i \in 1..Len(tbl)}

\* the results an ORDER BY may give: every order of the rows in which no row
\* comes before one that Less puts first (SQL leaves the order of ties open).
\* Built from the front: the next row is any row that comes after no other
\* row left (R: the pairs <<a, b>> with a before b).
RECURSIVE SortedSeqs(_, _)
SortedSeqs(S, R) ==
    IF S = {} THEN {<<>>}
    ELSE UNION {{<<x>> \o p : p \in SortedSeqs(S \ {x}, R)} :
                   x \in {y \in S : \A z \in S : <<z, y>> \notin R}}

OrderBy(S, Less(_, _)) ==
    SortedSeqs(S, {pr \in S \X S : Less(pr[1], pr[2])})

\* the first n elements (SQL LIMIT, Python s[:n])
Take(s, n) == SubSeq(s, 1, IF Len(s) < n THEN Len(s) ELSE n)

\* the database init_database() leaves on first import
EmptyDb ==
    [sessions |-> <<>>, messages |-> <<>>, concepts |-> <<>>,
     concept_mentions |-> <<>>,
     sqlite_sequence |-> [sessions |-> 0, messages |-> 0, concepts |-> 0,
                          concept_mentions |-> 0]]

\* cursor.lastrowid of the INSERT the operation is about to make
NextId(d, tbl) == d.sqlite_sequence[tbl] + 1

\* (started_at is never read but to sort the sidebar list: left out)
create_session(d) ==
    [d EXCEPT !.sessions = Append(@, [id |-> NextId(d, "sessions"),
                                       ended_at |-> NULL]),
              !.sqlite_sequence.sessions = @ + 1]

\* a variant that leaves the session open
end_session_open(d, session_id, t) == d

end_session(d, session_id, t) ==
    [d EXCEPT !.sessions = UpdateWhere(@, LAMBDA r : r.id = session_id,
                                       LAMBDA r : [r EXCEPT !.ended_at = t])]

save_message(d, session_id, role, content, t) ==
    [d EXCEPT !.messages = Append(@, [id |-> NextId(d, "messages"),
                                       session_id |-> session_id, role |-> role,
                                       content |-> content, created_at |-> t]),
              !.sqlite_sequence.messages = @ + 1]

\* SELECT * FROM messages WHERE session_id = ? ORDER BY created_at
get_session_messages(d, session_id) ==
    OrderBy({r \in Rows(d.messages) : r.session_id = session_id},
            LAMBDA a, b : a.created_at < b.created_at)

\* the ids get_recent_sessions lists: sessions with at least one message
\* (LIMIT 20 is above MaxSessions, so the limit never cuts the list)
get_recent_sessions(d) ==
    {s.id : s \in {r \in Rows(d.sessions) :
                     \E m \in Rows(d.messages) : m.session_id = r.id}}

save_concept_insert(d, name, category) ==
    [d EXCEPT !.concepts =
          Append(@, [id |-> NextId(d, "concepts"), name |-> name,
                     category |-> category, times_discussed |-> 1,
                     understanding_level |-> 1, last_reviewed_at |-> NULL]),
              !.sqlite_sequence.concepts = @ + 1]
save_concept(d, name, category) ==
    IF \E r \in Rows(d.concepts) : r.name = name
    THEN [d EXCEPT !.concepts =
              UpdateWhere(@, LAMBDA r : r.name = name,
                          LAMBDA r : [r EXCEPT !.times_discussed = @ + 1])]
    ELSE [d EXCEPT !.concepts =
              Append(@, [id |-> NextId(d, "concepts"), name |-> name,
                         category |-> category, times_discussed |-> 1,
                         understanding_level |-> 1, last_reviewed_at |-> NULL]),
                   !.sqlite_sequence.concepts = @ + 1]

\* the id save_concept returns
save_concept_id(d, name) ==
    IF \E r \in Rows(d.concepts) : r.name = name
    THEN (CHOOSE r \in Rows(d.concepts) : r.name = name).id
    ELSE NextId(d, "concepts")

\* (mentioned_at is never read: left out)
record_concept_mention(d, concept_id, message_id, session_id) ==
    [d EXCEPT !.concept_mentions =
          Append(@, [id |-> NextId(d, "concept_mentions"),
                     concept_id |-> concept_id, message_id |-> message_id,
                     session_id |-> session_id]),
              !.sqlite_sequence.concept_mentions = @ + 1]

get_concept_count(d) == Len(d.concepts)

Max(a, b) == IF a > b THEN a ELSE b
Min(a, b) == IF a < b THEN a ELSE b

ClampLevel_upper(level) == Min(5, level)
\* max(1, min(5, level))
ClampLevel(level) == Max(1, Min(5, level))

update_concept_understanding(d, concept_id, level, t) ==
    [d EXCEPT !.concepts =
          UpdateWhere(@, LAMBDA r : r.id = concept_id,
                      LAMBDA r : [r EXCEPT !.understanding_level = ClampLevel(level),
                                           !.last_reviewed_at = t])]

\* last_reviewed_at < datetime('now', '-7 days'): the stored value against
\* the UTC clock t (a NULL compares as not less)
OlderThanWeek(r, t) ==
    /\ r.last_reviewed_at # NULL
    /\ r.last_reviewed_at < t - REVIEW_DAYS * DayLength

\* ORDER BY understanding_level ASC,
\*          CASE WHEN last_reviewed_at IS NULL THEN 0 ELSE 1 END,
\*          last_reviewed_at ASC
NullFlag(r) == IF r.last_reviewed_at = NULL THEN 0 ELSE 1

QuizLess(a, b) ==
    \/ a.understanding_level < b.understanding_level
    \/ /\ a.understanding_level = b.understanding_level
       /\ \/ NullFlag(a) < NullFlag(b)
          \/ /\ NullFlag(a) = NullFlag(b)
             /\ a.last_reviewed_at < b.last_reviewed_at

\* the lists get_concepts_for_quiz(limit) may return
get_concepts_for_quiz(d, limit, t) ==
    {Take(p, limit) :
        p \in OrderBy({r \in Rows(d.concepts) :
                          \/ r.understanding_level < 4
                          \/ r.last_reviewed_at = NULL
                          \/ OlderThanWeek(r, t)},
                      QuizLess)}

NeedsReview(r, t) ==
    \/ r.understanding_level < 3
    \/ r.last_reviewed_at = NULL
    \/ OlderThanWeek(r, t)

\* ORDER BY CASE WHEN last_reviewed_at IS NULL THEN 0 ELSE 1 END,
\*          understanding_level ASC, last_reviewed_at ASC
ReviewLess(a, b) ==
    \/ NullFlag(a) < NullFlag(b)
    \/ /\ NullFlag(a) = NullFlag(b)
       /\ \/ a.understanding_level < b.understanding_level
          \/ /\ a.understanding_level = b.understanding_level
             /\ a.last_reviewed_at < b.last_reviewed_at

\* the lists get_concepts_needing_review() may return
get_concepts_needing_review(d, t) ==
    OrderBy({r \in Rows(d.concepts) : NeedsReview(r, t)}, ReviewLess)

delete_session_keep_mentions(d, session_id) ==
    [d EXCEPT !.messages = DeleteWhere(@, LAMBDA r : r.session_id = session_id),
              !.sessions = DeleteWhere(@, LAMBDA r : r.id = session_id)]
delete_session(d, session_id) ==
    [d EXCEPT !.concept_mentions = DeleteWhere(@, LAMBDA r : r.session_id = session_id),
              !.messages = DeleteWhere(@, LAMBDA r : r.session_id = session_id),
              !.sessions = DeleteWhere(@, LAMBDA r : r.id = session_id)]

\* DELETE FROM every table; the AUTOINCREMENT counters are kept
clear_all_data(d) ==
    [d EXCEPT !.concept_mentions = <<>>, !.messages = <<>>,
              !.sessions = <<>>, !.concepts = <<>>]

\* ------------------------------------------------------------------------
\* quiz.py
\* ------------------------------------------------------------------------
\* an empty dict
EmptyDict == [l \in {} |-> ""]
\* user_answer before the user has answered
NoAnswer == "None"

\* the markers of the reply format
QUESTION_MARK == <<"Q","U","E","S","T","I","O","N",":">>
CORRECT_MARK == <<"C","O","R","R","E","C","T",":">>
EXPLANATION_MARK == <<"_","E","X","P","L","A","N","A","T","I","O","N",":">>
CORRECT_EXPLANATION_MARK ==
    <<"C","O","R","R","E","C","T">> \o EXPLANATION_MARK
OptionMark(letter) == <<letter, ")">>
ExplanationMark(letter) == <<letter>> \o EXPLANATION_MARK

\* A reply of the LLM service to the quiz prompt is a text; the model writes
\* it as its lines, each a marker and the text after it.
QuizLine(tag, body) == [tag |-> tag, body |-> body]

\* the line as text: marker, a blank when there is text after it, the text
LineText(ln) ==
    IF ln.body = <<>> THEN ln.tag ELSE ln.tag \o <<" ">> \o ln.body

\* "\n".join(lines)
RECURSIVE ReplyText(_)
ReplyText(lines) ==
    IF lines = <<>> THEN <<>>
    ELSE IF Len(lines) = 1 THEN LineText(lines[1])
    ELSE LineText(lines[1]) \o <<"\n">> \o ReplyText(Tail(lines))

\* the lines QUIZ_PROMPT_TEMPLATE asks for
WellFormedLines(question, correct) == <<
    QuizLine(QUESTION_MARK, question),
    QuizLine(OptionMark("A"), <<"a">>), QuizLine(OptionMark("B"), <<"b">>),
    QuizLine(OptionMark("C"), <<"c">>), QuizLine(OptionMark("D"), <<"d">>),
    QuizLine(CORRECT_MARK, correct),
    QuizLine(CORRECT_EXPLANATION_MARK, <<"w">>),
    QuizLine(ExplanationMark("A"), <<"x">>), QuizLine(ExplanationMark("B"), <<"y">>),
    QuizLine(ExplanationMark("C"), <<"z">>), QuizLine(ExplanationMark("D"), <<"v">>) >>

WellFormedReply(correct) == ReplyText(WellFormedLines(<<"q">>, <<correct>>))

\* the reply without its CORRECT: line
NoCorrectReply ==
    ReplyText(SelectSeq(WellFormedLines(<<"q">>, <<"A">>),
                        LAMBDA ln : ln.tag # CORRECT_MARK))

\* the letters the service names as correct in the model's replies
QuizCorrectLetters == {"A"}
\* the option buttons the model's user presses (a right and a wrong answer)
AnswerLetters == {"A", "B"}

\* the replies the service gives to a quiz prompt
QuizReplies == {WellFormedReply(c) : c \in QuizCorrectLetters} \cup {NoCorrectReply}

\* --- the regular expressions of parse_quiz_response -----------------------
\* the literal occurs in the text at position i
MatchAt(t, i, lit) ==
    /\ i + Len(lit) - 1 <= Len(t)
    /\ \A j \in 1..Len(lit) : t[i + j - 1] = lit[j]

\* \s
IsSpace(c) == c \in {" ", "\n", "\t", "\r"}

\* how many characters \s* takes at position i when it takes all it can
RECURSIVE SpacesFrom(_, _)
SpacesFrom(t, i) ==
    IF i <= Len(t) /\ IsSpace(t[i]) THEN 1 + SpacesFrom(t, i + 1) ELSE 0

\* str.strip()
RECURSIVE lstrip(_)
lstrip(t) == IF t # <<>> /\ IsSpace(Head(t)) THEN lstrip(Tail(t)) ELSE t
RECURSIVE rstrip(_)
rstrip(t) ==
    IF t # <<>> /\ IsSpace(t[Len(t)]) THEN rstrip(SubSeq(t, 1, Len(t) - 1)) ELSE t
strip(t) == rstrip(lstrip(t))

\* a lookahead (?=lit1|lit2|...|$) at position j: one of the literals
\* follows, or (when the pattern ends in $) the text ends at j, or only its
\* last newline follows
AheadAt(t, j, lits, at_end) ==
    \/ \E lit \in lits : MatchAt(t, j, lit)
    \/ /\ at_end
       /\ \/ j = Len(t) + 1
          \/ j = Len(t) /\ t[j] = "\n"

\* the ends (exclusive) of group 1 of  mark\s*(.+?)(?=...)  when the mark is
\* at position p and \s* takes k characters
GroupEnds(t, p, mark, k, lits, at_end) ==
    {e \in (p + Len(mark) + k + 1)..(Len(t) + 1) : AheadAt(t, e, lits, at_end)}

\* the numbers of characters \s* may take for the pattern to match at p
SpaceTakes(t, p, mark, lits, at_end) ==
    {k \in 0..SpacesFrom(t, p + Len(mark)) :
        GroupEnds(t, p, mark, k, lits, at_end) # {}}

\* re.search(r'mark\s*(.+?)(?=...)', t, re.DOTALL): None, or group 1 of the
\* leftmost match; \s* is greedy and gives characters back only when no
\* match follows, .+? takes as few characters as it can
Search(t, mark, lits, at_end) ==
    LET starts == {p \in 1..Len(t) :
                      /\ MatchAt(t, p, mark)
                      /\ SpaceTakes(t, p, mark, lits, at_end) # {}}
    IN IF starts = {} THEN None
       ELSE LET p == CHOOSE x \in starts : \A y \in starts : x <= y
                takes == SpaceTakes(t, p, mark, lits, at_end)
                k == CHOOSE x \in takes : \A y \in takes : x >= y
                ends == GroupEnds(t, p, mark, k, lits, at_end)
                e == CHOOSE x \in ends : \A y \in ends : x <= y
            IN Some(SubSeq(t, p + Len(mark) + k, e - 1))

\* re.search(r'CORRECT:\s*([A-D])', t): None, or the letter
SearchCorrect(t) ==
    LET letter_at(p) == p + Len(CORRECT_MARK) + SpacesFrom(t, p + Len(CORRECT_MARK))
        starts == {p \in 1..Len(t) :
                      /\ MatchAt(t, p, CORRECT_MARK)
                      /\ letter_at(p) <= Len(t)
                      /\ t[letter_at(p)] \in LetterSet}
    IN IF starts = {} THEN None
       ELSE Some(t[letter_at(CHOOSE x \in starts : \A y \in starts : x <= y)])

\* \n[A-D]\)   \n[B-D]\)   \n[A-D]_EXPLANATION:   \n[B-D]_EXPLANATION:
NextOption(letters) == {<<"\n">> \o OptionMark(l) : l \in letters}
NextExplanation(letters) == {<<"\n">> \o ExplanationMark(l) : l \in letters}

\* the option of a letter: the first pattern, else the alternate one
SearchOption(t, letter) ==
    LET first == Search(t, OptionMark(letter),
                        NextOption({"B", "C", "D"}) \cup {CORRECT_MARK}, FALSE)
    IN IF first # None THEN first
       ELSE Search(t, OptionMark(letter), {<<"\n">> \o CORRECT_MARK}, FALSE)

\* parse_quiz_response: None, or the dict of the parsed question
parse_quiz_response(response_text) ==
    LET question_match == Search(response_text, QUESTION_MARK,
                                 NextOption(LetterSet), FALSE)
        options == [l \in {x \in LetterSet : SearchOption(response_text, x) # None}
                       |-> strip(SearchOption(response_text, l)[1])]
        correct_match == SearchCorrect(response_text)
        correct_exp_match == Search(response_text, CORRECT_EXPLANATION_MARK,
                                    NextExplanation(LetterSet), FALSE)
        explanation(l) == Search(response_text, ExplanationMark(l),
                                 NextExplanation({"B", "C", "D"}), TRUE)
    IN IF question_match = None THEN None
       ELSE IF Cardinality(DOMAIN options) # 4 THEN None
       ELSE IF correct_match = None THEN None
       ELSE IF correct_exp_match = None THEN None
       ELSE Some([question |-> strip(question_match[1]),
                  options |-> options,
                  correct |-> correct_match[1],
                  correct_explanation |-> strip(correct_exp_match[1]),
                  explanations |->
                      [l \in LetterSet |->
                          IF explanation(l) # None THEN strip(explanation(l)[1])
                          ELSE <<>>]])

\* generate_quiz_question, by the reply the service gives to the prompt:
\* what parse_quiz_response makes of it
generate_quiz_question == [reply \in QuizReplies |-> parse_quiz_response(reply)]

create_initial_quiz_state(concepts) ==
    [active |-> TRUE, concepts |-> concepts, current_index |-> 0,
     question |-> <<>>, options |-> EmptyDict, correct |-> "",
     explanations |-> EmptyDict, correct_explanation |-> <<>>,
     user_answer |-> NoAnswer, answered |-> FALSE, results |-> <<>>,
     loading |-> TRUE]

\* ------------------------------------------------------------------------
\* app.py and components/sidebar.py: the helpers of the page script
\* ------------------------------------------------------------------------
\* st.session_state of a browser session that has not run the script yet
\* (absent keys hold the defaults main() and init_quiz_state() give them)
FreshSessionState ==
    [session_id |-> NULL, messages |-> <<>>, pydantic_messages |-> <<>>,
     message_count |-> 0, quiz_mode |-> FALSE, quiz_concepts |-> <<>>,
     awaiting_rating |-> FALSE, quiz_state |-> None,
     pending_concept_question |-> None, confirm_reset |-> FALSE]

check_message_limit_gt(ss) == ss.message_count > MAX_MESSAGES_PER_SESSION
check_message_limit(ss) == ss.message_count >= MAX_MESSAGES_PER_SESSION

\* a variant that counts a call twice
increment_message_count_twice(ss) == [ss EXCEPT !.message_count = @ + 2]
increment_message_count(ss) == [ss EXCEPT !.message_count = @ + 1]

\* the loop of save_and_track_message over the extracted concepts
RECURSIVE TrackConcepts(_, _, _, _, _)
TrackConcepts(d, concepts, message_id, session_id, t) ==
    IF concepts = <<>> THEN d
    ELSE LET c == Head(concepts)
             concept_id == save_concept_id(d, c.name)
             d1 == save_concept(d, c.name, c.category)
             d2 == record_concept_mention(d1, concept_id, message_id, session_id)
         IN TrackConcepts(d2, Tail(concepts), message_id, session_id, t)

save_and_track_message(d, session_id, role, content, t) ==
    LET message_id == NextId(d, "messages")
        d1 == save_message(d, session_id, role, content, t)
    IN IF role = "assistant"
       THEN TrackConcepts(d1, extract_concepts(content), message_id, session_id, t)
       ELSE d1

\* the loop of update_quiz_understanding over the quiz concepts
RateConcepts_first(d, concepts, level, t) ==
    IF concepts = <<>> THEN d
    ELSE update_concept_understanding(d, Head(concepts).id, level, t)
RECURSIVE RateConcepts(_, _, _, _)
RateConcepts(d, concepts, level, t) ==
    IF concepts = <<>> THEN d
    ELSE RateConcepts(update_concept_understanding(d, Head(concepts).id, level, t),
                      Tail(concepts), level, t)

\* update_quiz_understanding: the session state after it
update_quiz_understanding(ss) ==
    [ss EXCEPT !.quiz_mode = FALSE, !.quiz_concepts = <<>>,
               !.awaiting_rating = FALSE, !.quiz_state = None]

advance_quiz_keep_index(ss) ==
    IF ss.quiz_state = None THEN ss
    ELSE [ss EXCEPT !.quiz_state = Some(
             [ss.quiz_state[1] EXCEPT
                 !.question = <<>>, !.options = EmptyDict,
                 !.correct = "", !.explanations = EmptyDict,
                 !.correct_explanation = <<>>, !.user_answer = NoAnswer,
                 !.answered = FALSE, !.loading = TRUE])]
advance_quiz_keep_answered(ss) ==
    IF ss.quiz_state = None THEN ss
    ELSE [ss EXCEPT !.quiz_state = Some(
             [ss.quiz_state[1] EXCEPT
                 !.current_index = @ + 1,
                 !.question = <<>>, !.options = EmptyDict,
                 !.correct = "", !.explanations = EmptyDict,
                 !.correct_explanation = <<>>, !.user_answer = NoAnswer,
                 !.loading = TRUE])]

advance_quiz(ss) ==
    IF ss.quiz_state = None THEN ss
    ELSE [ss EXCEPT !.quiz_state = Some(
             [ss.quiz_state[1] EXCEPT
                 !.current_index = @ + 1,
                 !.question = <<>>, !.options = EmptyDict,
                 !.correct = "", !.explanations = EmptyDict,
                 !.correct_explanation = <<>>, !.user_answer = NoAnswer,
                 !.answered = FALSE, !.loading = TRUE])]

finish_quiz(ss) == [ss EXCEPT !.awaiting_rating = TRUE]

start_quiz_mode_nocheck(ss, quiz_concepts) ==
    [ss EXCEPT !.quiz_mode = TRUE, !.quiz_concepts = quiz_concepts,
               !.awaiting_rating = FALSE,
               !.quiz_state = Some(create_initial_quiz_state(quiz_concepts))]
\* start_quiz_mode with the list get_concepts_for_quiz returned
start_quiz_mode(ss, quiz_concepts) ==
    IF quiz_concepts = <<>>
    THEN [ss EXCEPT !.quiz_mode = FALSE, !.quiz_concepts = <<>>, !.quiz_state = None]
    ELSE [ss EXCEPT !.quiz_mode = TRUE, !.quiz_concepts = quiz_concepts,
                    !.awaiting_rating = FALSE,
                    !.quiz_state = Some(create_initial_quiz_state(quiz_concepts))]

\* load_session with the rows get_session_messages returned
load_session(ss, session_id, rows) ==
    [ss EXCEPT !.session_id = session_id,
               !.messages = [i \in 1..Len(rows) |->
                                [role |-> rows[i].role, content |-> rows[i].content]],
               !.pydantic_messages = <<>>, !.message_count = 0,
               !.quiz_mode = FALSE, !.quiz_state = None,
               !.quiz_concepts = <<>>, !.awaiting_rating = FALSE]

\* the three branches of main()
quiz_active(ss) ==
    ss.quiz_mode /\ ss.quiz_state # None /\ ss.quiz_state[1].active

InQuizBranch(ss) == quiz_active(ss) /\ ~ss.awaiting_rating
InRatingBranch(ss) == ~InQuizBranch(ss) /\ ss.quiz_mode /\ ss.awaiting_rating
InChatBranch(ss) == ~InQuizBranch(ss) /\ ~InRatingBranch(ss)

\* render_quiz_header reads concepts[current_index]: an IndexError when the
\* index is past the batch
HeaderRaises(ss) ==
    ss.quiz_state[1].current_index >= Len(ss.quiz_state[1].concepts)

\* concepts[current_index] (Python counts from 0)
CurrentConcept_first(q) == q.concepts[1]
CurrentConcept(q) == q.concepts[q.current_index + 1]

\* ensure_session: the database and the session state after it
ensure_session(d, ss, t) ==
    IF ss.session_id = NULL
    THEN [db |-> create_session(d),
          ss |-> [ss EXCEPT !.session_id = NextId(d, "sessions"),
                            !.messages = <<>>, !.pydantic_messages = <<>>,
                            !.message_count = 0]]
    ELSE [db |-> d, ss |-> ss]

\* What the LLM service does with one request: a reply, or one of the
\* failures the handlers tell apart (ModelHTTPError with a quota code, with
\* status 429, any other ModelHTTPError, any other exception).
LLMFailures == {"insufficient_quota", "status_429", "http_error", "exception"}

process_user_input_counted(d, ss, user_input, ok, reply, t, t2) ==
    LET ss1 == [ss EXCEPT !.messages =
                    Append(@, [role |-> "user", content |-> user_input])]
        ss2 == [ss1 EXCEPT !.pydantic_messages =
                    @ \o <<[request |-> user_input, response |-> reply]>>]
        ss3 == increment_message_count(IF ok THEN ss2 ELSE ss1)
        ss4 == [ss3 EXCEPT !.messages =
                    Append(@, [role |-> "assistant", content |-> reply])]
        d1 == save_and_track_message(d, ss.session_id, "user", user_input, t)
    IN IF ~ok THEN [db |-> d1, ss |-> ss3]
       ELSE [db |-> save_and_track_message(d1, ss.session_id, "assistant", reply, t2),
             ss |-> ss4]

\* process_user_input: the database and the session state after it, when the
\* service answers `reply` (ok) or fails; t is the clock when the user's
\* message is stored, t2 when the reply is
process_user_input(d, ss, user_input, ok, reply, t, t2) ==
    LET ss1 == [ss EXCEPT !.messages =
                    Append(@, [role |-> "user", content |-> user_input])]
        d1 == save_and_track_message(d, ss.session_id, "user", user_input, t)
    IN IF ~ok THEN [db |-> d1, ss |-> ss1]
       ELSE LET ss2 == [ss1 EXCEPT !.pydantic_messages =
                            @ \o <<[request |-> user_input, response |-> reply]>>]
                ss3 == increment_message_count(ss2)
                ss4 == [ss3 EXCEPT !.messages =
                            Append(@, [role |-> "assistant", content |-> reply])]
            IN [db |-> save_and_track_message(d1, ss.session_id, "assistant", reply, t2),
                ss |-> ss4]

\* ------------------------------------------------------------------------
\* History variable
\* ------------------------------------------------------------------------
\* op: the step; llm: the step sent a request to the LLM service; capped: the
\* message count had reached the cap when it did
Ev(op) == [op |-> op, llm |-> FALSE, capped |-> FALSE]
EvLLM(op, ss) ==
    [op |-> op, llm |-> TRUE,
     capped |-> ss.message_count >= MAX_MESSAGES_PER_SESSION]

Init ==
    /\ db = EmptyDb
    /\ now = DayLength
    /\ tz = 0
    /\ session_state = FreshSessionState
    /\ rerun = TRUE
    /\ ev = Ev("init")

\* ------------------------------------------------------------------------
\* Runs of main() that no widget started (first load, st.rerun())
\* ------------------------------------------------------------------------
\* the first run: ensure_session creates the session, the chat is rendered
FirstLoad ==
    /\ rerun
    /\ session_state.session_id = NULL
    /\ LET r == ensure_session(db, session_state, now)
       IN /\ db' = r.db
          /\ session_state' = r.ss
    /\ rerun' = FALSE
    /\ ev' = Ev("first_load")
    /\ UNCHANGED <<now, tz>>

\* a run that only renders: the result of an answered question, a generated
\* question, the rating buttons, or the chat
RenderPage ==
    /\ rerun
    /\ session_state.session_id # NULL
    /\ \/ /\ InQuizBranch(session_state)
          /\ ~HeaderRaises(session_state)
          /\ \/ session_state.quiz_state[1].answered
             \/ /\ ~check_message_limit(session_state)
                /\ ~session_state.quiz_state[1].loading
       \/ InRatingBranch(session_state)
       \/ /\ InChatBranch(session_state)
          /\ \/ check_message_limit(session_state)
             \/ session_state.pending_concept_question = None
    /\ rerun' = FALSE
    /\ ev' = Ev("render")
    /\ UNCHANGED <<db, now, tz, session_state>>

\* render_quiz_header raises IndexError: the run ends, the state stays
QuizHeaderError ==
    /\ rerun
    /\ session_state.session_id # NULL
    /\ InQuizBranch(session_state)
    /\ HeaderRaises(session_state)
    /\ rerun' = FALSE
    /\ ev' = Ev("index_error")
    /\ UNCHANGED <<db, now, tz, session_state>>

QuizLimitAbort_keep ==
    /\ rerun
    /\ session_state.session_id # NULL
    /\ InQuizBranch(session_state)
    /\ ~HeaderRaises(session_state)
    /\ ~session_state.quiz_state[1].answered
    /\ check_message_limit(session_state)
    /\ session_state' = finish_quiz(session_state)
    /\ rerun' = FALSE
    /\ ev' = Ev("quiz_limit_abort")
    /\ UNCHANGED <<db, now, tz>>

\* render_quiz_question: the message limit is reached
QuizLimitAbort ==
    /\ rerun
    /\ session_state.session_id # NULL
    /\ InQuizBranch(session_state)
    /\ ~HeaderRaises(session_state)
    /\ ~session_state.quiz_state[1].answered
    /\ check_message_limit(session_state)
    /\ session_state' = [session_state EXCEPT !.quiz_mode = FALSE, !.quiz_state = None]
    /\ rerun' = FALSE
    /\ ev' = Ev(IF session_state.quiz_state[1].loading
                THEN "quiz_limit_abort" ELSE "quiz_limit_abort_question")
    /\ UNCHANGED <<db, now, tz>>

\* render_quiz_question reaches generate_quiz_question
Generating ==
    /\ rerun
    /\ session_state.session_id # NULL
    /\ InQuizBranch(session_state)
    /\ ~HeaderRaises(session_state)
    /\ ~session_state.quiz_state[1].answered
    /\ ~check_message_limit(session_state)
    /\ session_state.quiz_state[1].loading

\* the session state after a parsed question is stored
StoreQuestion(ss, quiz_data) ==
    LET ss1 == increment_message_count(ss)
    IN [ss1 EXCEPT !.quiz_state = Some(
           [ss1.quiz_state[1] EXCEPT
               !.question = quiz_data.question,
               !.options = quiz_data.options,
               !.correct = quiz_data.correct,
               !.explanations = quiz_data.explanations,
               !.correct_explanation = quiz_data.correct_explanation,
               !.loading = FALSE])]

\* the service answers and the reply parses
GenerateParsed ==
    /\ Generating
    /\ \E reply \in QuizReplies :
          /\ generate_quiz_question[reply] # None
          /\ session_state' = StoreQuestion(session_state, generate_quiz_question[reply][1])
    /\ rerun' = TRUE
    /\ ev' = EvLLM("generate_parsed", session_state)
    /\ UNCHANGED <<db, now, tz>>

\* the service answers and the reply does not parse
GenerateUnparsable ==
    /\ Generating
    /\ \E reply \in QuizReplies : generate_quiz_question[reply] = None
    /\ session_state' = advance_quiz(session_state)
    /\ rerun' = TRUE
    /\ ev' = EvLLM("generate_unparsable", session_state)
    /\ UNCHANGED <<db, now, tz>>

\* the session state after the except clauses of render_quiz_question
QuizErrorReset_keep(ss) == ss
QuizErrorReset(ss) == [ss EXCEPT !.quiz_mode = FALSE, !.quiz_state = None]

\* the service fails
GenerateError ==
    /\ Generating
    /\ \E f \in LLMFailures : ev' = EvLLM("generate_error", session_state)
    /\ session_state' = QuizErrorReset(session_state)
    /\ rerun' = FALSE
    /\ UNCHANGED <<db, now, tz>>

\* the model's bound on the messages table: room for n more rows
RoomFor(n) == Len(db.messages) + n <= MaxMsgRows

\* one chat turn with the given input, the service answering from `replies`
ChatTurn(op, ss, user_input, replies) ==
    /\ \/ \E reply \in replies :
             LET r == process_user_input(db, ss, user_input, TRUE, reply, now, now)
             IN /\ RoomFor(2)
                /\ db' = r.db
                /\ session_state' = r.ss
                /\ ev' = EvLLM(op, ss)
       \/ \E f \in LLMFailures :
             LET r == process_user_input(db, ss, user_input, FALSE, <<>>, now, now)
             IN /\ RoomFor(1)
                /\ db' = r.db
                /\ session_state' = r.ss
                /\ ev' = EvLLM(op \o "_failed", ss)
    /\ rerun' = TRUE
    /\ UNCHANGED <<now, tz>>

\* main(): a pending 'ask about this' question is asked
ProcessPending ==
    /\ rerun
    /\ session_state.session_id # NULL
    /\ InChatBranch(session_state)
    /\ ~check_message_limit(session_state)
    /\ session_state.pending_concept_question # None
    /\ ChatTurn("ask_about",
                [session_state EXCEPT !.pending_concept_question = None],
                ExplainPrompt(session_state.pending_concept_question),
                ReplyTexts)

\* ------------------------------------------------------------------------
\* Runs of main() that a widget of the rendered page started
\* ------------------------------------------------------------------------
\* the page is rendered and waits for the user
Idle == ~rerun /\ session_state.session_id # NULL

\* chat_input: the user types a message
ChatInputWith(replies) ==
    /\ Idle
    /\ InChatBranch(session_state)
    /\ ~check_message_limit(session_state)
    /\ session_state.pending_concept_question = None
    /\ \E text \in UserTexts : ChatTurn("chat", session_state, text, replies)

ChatInput == ChatInputWith(ReplyTexts)
ChatInputLesson == ChatInputWith(LessonTexts)

\* the quiz state after the button of option `letter` is pressed
RecordAnswer_unflagged(q, letter) ==
    [q EXCEPT !.user_answer = letter,
              !.results = Append(@, [concept_id |-> CurrentConcept(q).id,
                                     correct |-> (letter = q.correct)])]
RecordAnswer(q, letter) ==
    [q EXCEPT !.user_answer = letter,
              !.answered = TRUE,
              !.results = Append(@, [concept_id |-> CurrentConcept(q).id,
                                     correct |-> (letter = q.correct)])]

\* the option buttons of render_quiz_question
SelectOption ==
    /\ Idle
    /\ InQuizBranch(session_state)
    /\ ~HeaderRaises(session_state)
    /\ ~session_state.quiz_state[1].answered
    /\ ~check_message_limit(session_state)
    /\ ~session_state.quiz_state[1].loading
    /\ \E letter \in AnswerLetters :
          session_state' = [session_state EXCEPT !.quiz_state =
              Some(RecordAnswer(session_state.quiz_state[1], letter))]
    /\ rerun' = TRUE
    /\ ev' = Ev("select_option")
    /\ UNCHANGED <<db, now, tz>>

\* the result of an answered question is on the page
ShowingResult ==
    /\ Idle
    /\ InQuizBranch(session_state)
    /\ ~HeaderRaises(session_state)
    /\ session_state.quiz_state[1].answered

\* is_last of render_quiz_result
is_last_never(q) == q.current_index >= Len(q.concepts)
is_last(q) == q.current_index >= Len(q.concepts) - 1

\* "Next Question"
NextQuestion ==
    /\ ShowingResult
    /\ ~is_last(session_state.quiz_state[1])
    /\ session_state' = advance_quiz(session_state)
    /\ rerun' = TRUE
    /\ ev' = Ev("next_question")
    /\ UNCHANGED <<db, now, tz>>

\* a variant of "Done" / "End Quiz" that rates the batch as not understood
EndQuiz_rated ==
    /\ ShowingResult
    /\ session_state' = finish_quiz(session_state)
    /\ db' = RateConcepts(db, session_state.quiz_concepts, 1, LocalNow)
    /\ rerun' = TRUE
    /\ ev' = Ev("end_quiz")
    /\ UNCHANGED <<now, tz>>

\* "Done" / "End Quiz"
EndQuiz ==
    /\ ShowingResult
    /\ session_state' = finish_quiz(session_state)
    /\ rerun' = TRUE
    /\ ev' = Ev("end_quiz")
    /\ UNCHANGED <<db, now, tz>>

\* the levels of the three rating buttons
RatingLevels == {1, 3, 5}

\* a rating button of render_understanding_rating
Rate ==
    /\ Idle
    /\ InRatingBranch(session_state)
    /\ \E level \in RatingLevels :
          db' = RateConcepts(db, session_state.quiz_concepts, level, LocalNow)
    /\ session_state' = update_quiz_understanding(session_state)
    /\ rerun' = TRUE
    /\ ev' = Ev(IF /\ session_state.quiz_state # None
                   /\ Len(session_state.quiz_state[1].results)
                        < Len(session_state.quiz_concepts)
                THEN "rate_unanswered" ELSE "rate")
    /\ UNCHANGED <<now, tz>>

\* ------------------------------------------------------------------------
\* The sidebar (rendered in every run, before the main area)
\* ------------------------------------------------------------------------
\* "+ New Session", while fewer than max sessions have been created
NewSessionWithin(max) ==
    /\ Idle
    /\ db.sqlite_sequence.sessions < max
    /\ LET d1 == IF session_state.session_id # NULL
                 THEN end_session(db, session_state.session_id, LocalNow)
                 ELSE db
       IN /\ db' = create_session(d1)
          /\ session_state' = [session_state EXCEPT
                 !.session_id = NextId(d1, "sessions"),
                 !.messages = <<>>, !.pydantic_messages = <<>>,
                 !.message_count = 0]
    /\ rerun' = TRUE
    /\ ev' = Ev("new_session")
    /\ UNCHANGED <<now, tz>>

NewSession == NewSessionWithin(MaxSessions)

\* a variant that gives the row of the current session the buttons too
OtherSessions_all == get_recent_sessions(db)
\* the sessions _render_session_row gives a load and a delete button
OtherSessions == get_recent_sessions(db) \ {session_state.session_id}

\* the button of a listed session
LoadSession ==
    /\ Idle
    /\ \E s \in OtherSessions : \E rows \in get_session_messages(db, s) :
          session_state' = load_session(session_state, s, rows)
    /\ rerun' = TRUE
    /\ ev' = Ev("load_session")
    /\ UNCHANGED <<db, now, tz>>

\* the delete button of a listed session
DeleteSession ==
    /\ Idle
    /\ \E s \in OtherSessions : db' = delete_session(db, s)
    /\ rerun' = TRUE
    /\ ev' = Ev("delete_session")
    /\ UNCHANGED <<now, tz, session_state>>

\* "Quiz Me on Weak Spots"
QuizMe ==
    /\ Idle
    /\ get_concept_count(db) > 0
    /\ \E quiz_concepts \in get_concepts_for_quiz(db, QUIZ_LIMIT, now) :
          session_state' = start_quiz_mode(session_state, quiz_concepts)
    /\ rerun' = TRUE
    /\ ev' = Ev("quiz_me")
    /\ UNCHANGED <<db, now, tz>>

\* the "ask about this" button of a concept row (disabled in quiz mode)
AskAbout ==
    /\ Idle
    /\ ~session_state.quiz_mode
    /\ \E c \in Rows(db.concepts) :
          session_state' = [session_state EXCEPT !.pending_concept_question = c.name]
    /\ rerun' = TRUE
    /\ ev' = Ev("ask_about_click")
    /\ UNCHANGED <<db, now, tz>>

\* "Reset All Data": asks for confirmation; the run goes on into the main area
ResetRequestWithin(max) ==
    /\ Idle
    /\ ~session_state.confirm_reset
    /\ db.sqlite_sequence.sessions < max
    /\ session_state' = [session_state EXCEPT !.confirm_reset = TRUE]
    /\ rerun' = TRUE
    /\ ev' = Ev("reset_request")
    /\ UNCHANGED <<db, now, tz>>

ResetRequest == ResetRequestWithin(MaxSessions)

\* "Cancel"
ResetCancel ==
    /\ Idle
    /\ session_state.confirm_reset
    /\ session_state' = [session_state EXCEPT !.confirm_reset = FALSE]
    /\ rerun' = TRUE
    /\ ev' = Ev("reset_cancel")
    /\ UNCHANGED <<db, now, tz>>

\* "Confirm"
ResetConfirmWithin(max) ==
    /\ Idle
    /\ session_state.confirm_reset
    /\ db.sqlite_sequence.sessions < max
    /\ LET d1 == clear_all_data(db)
       IN /\ db' = create_session(d1)
          /\ session_state' = [session_state EXCEPT
                 !.session_id = NextId(d1, "sessions"),
                 !.messages = <<>>, !.pydantic_messages = <<>>,
                 !.quiz_mode = FALSE, !.quiz_concepts = <<>>,
                 !.quiz_state = None, !.message_count = 0,
                 !.confirm_reset = FALSE]
    /\ rerun' = TRUE
    /\ ev' = Ev("reset_confirm")
    /\ UNCHANGED <<now, tz>>

ResetConfirm == ResetConfirmWithin(MaxSessions)

\* time passes while the page waits for the user
Tick ==
    /\ ~rerun
    /\ now + TickDays * DayLength <= MaxNow * DayLength
    /\ now' = now + TickDays * DayLength
    /\ ev' = Ev("tick")
    /\ UNCHANGED <<db, tz, session_state, rerun>>

Next ==
    \/ FirstLoad
    \/ RenderPage
    \/ QuizHeaderError
    \/ QuizLimitAbort
    \/ GenerateParsed
    \/ GenerateUnparsable
    \/ GenerateError
    \/ ProcessPending
    \/ ChatInput
    \/ SelectOption
    \/ NextQuestion
    \/ EndQuiz
    \/ Rate
    \/ NewSession
    \/ LoadSession
    \/ DeleteSession
    \/ QuizMe
    \/ AskAbout
    \/ ResetRequest
    \/ ResetCancel
    \/ ResetConfirm

\* every handler of the page, the clock standing still
Spec == Init /\ [][Next]_vars

\* the chat and the quiz of one session, with richer lessons and the clock
NextQuiz ==
    \/ FirstLoad
    \/ RenderPage
    \/ QuizHeaderError
    \/ QuizLimitAbort
    \/ GenerateParsed
    \/ GenerateUnparsable
    \/ GenerateError
    \/ ChatInputLesson
    \/ SelectOption
    \/ NextQuestion
    \/ EndQuiz
    \/ Rate
    \/ QuizMe
    \/ Tick

SpecQuiz == Init /\ [][NextQuiz]_vars

\* ------------------------------------------------------------------------
\* database.py called directly: the store's functions on the inputs drawn
\* below, on a host whose local time is behind, at or ahead of UTC
\* ------------------------------------------------------------------------
\* local time minus UTC, in time units
UtcOffsets == {-2, 0, 2}
\* the levels update_concept_understanding is called with
DbLevels == {-3, 0, 1, 3, 4, 5, 6, 9}
\* the limits get_concepts_for_quiz is called with
DbLimits == {1, QUIZ_LIMIT}
\* the (name, category) pairs save_concept is called with: the first two
\* names of the keyword table
DbConcepts == Rows(SubSeq(FlattenKeywords(CONCEPT_KEYWORDS), 1, 2))

\* a call of the store: its name, its arguments and what it returned
DbEv(op, arg, result) ==
    [op |-> op, llm |-> FALSE, capped |-> FALSE, arg |-> arg, result |-> result]

InitDb ==
    /\ db = EmptyDb
    /\ now = DayLength
    /\ tz \in UtcOffsets
    /\ session_state = FreshSessionState
    /\ rerun = FALSE
    /\ ev = Ev("init")

DbSaveConcept ==
    /\ \E c \in DbConcepts :
          /\ \A r \in Rows(db.concepts) :
                r.name = c.name => r.times_discussed < MaxDiscussed
          /\ db' = save_concept(db, c.name, c.category)
          /\ ev' = DbEv("save_concept", c.name, save_concept_id(db, c.name))
    /\ UNCHANGED <<now, tz, session_state, rerun>>

DbUpdateUnderstanding ==
    /\ \E r \in Rows(db.concepts) : \E level \in DbLevels :
          /\ db' = update_concept_understanding(db, r.id, level, LocalNow)
          /\ ev' = DbEv("update_concept_understanding",
                        [concept_id |-> r.id, level |-> level], <<>>)
    /\ UNCHANGED <<now, tz, session_state, rerun>>

DbGetConceptsForQuiz ==
    /\ \E limit \in DbLimits : \E result \in get_concepts_for_quiz(db, limit, now) :
          ev' = DbEv("get_concepts_for_quiz", limit, result)
    /\ UNCHANGED <<db, now, tz, session_state, rerun>>

DbGetConceptsNeedingReview ==
    /\ \E result \in get_concepts_needing_review(db, now) :
          ev' = DbEv("get_concepts_needing_review", <<>>, result)
    /\ UNCHANGED <<db, now, tz, session_state, rerun>>

\* one clock unit less than the review period passes
TickAlmostWeek ==
    /\ now + REVIEW_DAYS * DayLength - 1 <= MaxNow * DayLength
    /\ now' = now + REVIEW_DAYS * DayLength - 1
    /\ ev' = Ev("tick")
    /\ UNCHANGED <<db, tz, session_state, rerun>>

NextDb ==
    \/ DbSaveConcept
    \/ DbUpdateUnderstanding
    \/ DbGetConceptsForQuiz
    \/ DbGetConceptsNeedingReview
    \/ Tick
    \/ TickAlmostWeek

SpecDb == InitDb /\ [][NextDb]_vars

\* ------------------------------------------------------------------------
\* One long conversation: the user chats in one session only, the service
\* always answers, every message is stored one clock unit after the one
\* before, and the user opens a new session and comes back
\* ------------------------------------------------------------------------
\* the reply of the service: a text without a keyword
CapReplies == { <<"o","k">> }

\* chat_input, in the session that holds every stored message
ChatInputAnswered ==
    /\ Idle
    /\ InChatBranch(session_state)
    /\ ~check_message_limit(session_state)
    /\ session_state.pending_concept_question = None
    /\ \A m \in Rows(db.messages) : m.session_id = session_state.session_id
    /\ Len(db.messages) + 2 <= MaxCapRows
    /\ \E text \in UserTexts : \E reply \in CapReplies :
          LET r == process_user_input(db, session_state, text, TRUE, reply,
                                      now, now + 1)
          IN /\ db' = r.db
             /\ session_state' = r.ss
             /\ ev' = EvLLM("chat", session_state)
    /\ now' = now + 2
    /\ rerun' = TRUE
    /\ UNCHANGED tz

NextCap ==
    \/ FirstLoad
    \/ RenderPage
    \/ ChatInputAnswered
    \/ NewSession
    \/ LoadSession

SpecCap == Init /\ [][NextCap]_vars

\* ------------------------------------------------------------------------
\* models.py called directly: extract_concepts on texts made of up to
\* MaxWords words
\* ------------------------------------------------------------------------
\* the words of the texts: keywords in other letter cases than the table's,
\* a word that contains a keyword (fire: IR), a word without a keyword
ExtractWords ==
    { <<"s","h","a","-","1">>, <<"E","x","p","l","o","i","t">>,
      <<"f","i","r","e">>, <<"C","V","E">>, <<"W","o","r","m">>, <<"o","k">> }

InitExtract ==
    /\ db = EmptyDb
    /\ now = DayLength
    /\ tz = 0
    /\ session_state = FreshSessionState
    /\ rerun = FALSE
    /\ ev = DbEv("text", <<>>, <<>>)

\* the caller puts one more word into the text
AddWord ==
    /\ ev.op = "text"
    /\ Len(SelectSeq(ev.arg, LAMBDA c : c = " ")) + 1 < MaxWords \/ ev.arg = <<>>
    /\ \E w \in ExtractWords :
          ev' = DbEv("text", IF ev.arg = <<>> THEN w ELSE ev.arg \o <<" ">> \o w, <<>>)
    /\ UNCHANGED <<db, now, tz, session_state, rerun>>

ExtractConcepts ==
    /\ ev.op = "text"
    /\ ev' = DbEv("extract_concepts", ev.arg, extract_concepts(ev.arg))
    /\ UNCHANGED <<db, now, tz, session_state, rerun>>

NextExtract ==
    \/ AddWord
    \/ ExtractConcepts

SpecExtract == InitExtract /\ [][NextExtract]_vars

\* ------------------------------------------------------------------------
\* quiz.py called directly: parse_quiz_response on replies that follow the
\* format of the prompt or leave lines or texts of it out
\* ------------------------------------------------------------------------
\* the question texts: a plain one, none, one that ends in "A)"
ParseQuestions == { <<"q">>, <<>>, <<"(","2","F","A",")">> }
\* the texts after CORRECT: (E is no option letter)
ParseCorrects == { <<"A">>, <<"D">>, <<"E">>, <<>> }
\* the line left out of the part before the explanations: none or one
ParseDrops ==
    {{}} \cup {{m} : m \in {QUESTION_MARK, CORRECT_MARK, CORRECT_EXPLANATION_MARK}
                              \cup {OptionMark(l) : l \in LetterSet}}

\* the lines of a reply: those of the format without the dropped one and
\* with the per-letter explanations of `kept` only
ReplyLines(question, correct, drop, kept) ==
    SelectSeq(WellFormedLines(question, correct),
              LAMBDA ln : /\ ln.tag \notin drop
                          /\ \A l \in LetterSet \ kept : ln.tag # ExplanationMark(l))

ParseInputs ==
    {ReplyLines(q, c, drop, kept) :
        q \in ParseQuestions, c \in ParseCorrects,
        drop \in ParseDrops, kept \in SUBSET LetterSet}

InitParse ==
    /\ db = EmptyDb
    /\ now = DayLength
    /\ tz = 0
    /\ session_state = FreshSessionState
    /\ rerun = FALSE
    /\ \E lines \in ParseInputs : ev = DbEv("reply", lines, <<>>)

ParseQuizResponse ==
    /\ ev.op = "reply"
    /\ ev' = DbEv("parse_quiz_response", ev.arg, parse_quiz_response(ReplyText(ev.arg)))
    /\ UNCHANGED <<db, now, tz, session_state, rerun>>

NextParse == ParseQuizResponse

SpecParse == InitParse /\ [][NextParse]_vars

\* ------------------------------------------------------------------------
\* The quiz under fairness: Streamlit runs the script whenever a rerun is
\* pending, and the user does not leave a rendered quiz button unpressed
\* for ever
\* ------------------------------------------------------------------------
\* a run of main() that a rerun or the first load started
PageRun ==
    \/ FirstLoad
    \/ RenderPage
    \/ QuizHeaderError
    \/ QuizLimitAbort
    \/ GenerateParsed
    \/ GenerateUnparsable
    \/ GenerateError

NextLive ==
    \/ PageRun
    \/ ChatInput
    \/ SelectOption
    \/ NextQuestion
    \/ EndQuiz
    \/ Rate
    \/ QuizMe

\* a pending run is run; a shown question is answered, a shown result is
\* left by Next Question or Done / End Quiz, shown rating buttons are pressed
Fairness ==
    /\ WF_vars(PageRun)
    /\ WF_vars(SelectOption)
    /\ WF_vars(NextQuestion \/ EndQuiz)
    /\ WF_vars(Rate)

SpecLive == Init /\ [][NextLive]_vars /\ Fairness

\* ------------------------------------------------------------------------
\* The sessions of the sidebar: the chat and the session buttons, over more
\* sessions than Spec creates
\* ------------------------------------------------------------------------
NewSessionMore == NewSessionWithin(MaxSessionRows)
ResetRequestMore == ResetRequestWithin(MaxSessionRows)
ResetConfirmMore == ResetConfirmWithin(MaxSessionRows)

NextSessions ==
    \/ FirstLoad
    \/ RenderPage
    \/ ChatInput
    \/ NewSessionMore
    \/ LoadSession
    \/ DeleteSession
    \/ ResetRequestMore
    \/ ResetCancel
    \/ ResetConfirmMore
    \/ Tick

SpecSessions == Init /\ [][NextSessions]_vars

\* ------------------------------------------------------------------------
\* Properties
\* ------------------------------------------------------------------------
\* the quiz state, when there is one
HasQuiz == session_state.quiz_state # None
Quiz == session_state.quiz_state[1]
\* the rating stage (AwaitingRating) of a quiz
AtRating == InRatingBranch(session_state) /\ HasQuiz

\* C1: no step sends a request to the LLM service (a typed chat turn, an
\* 'ask about this' turn, a quiz question) while the session's message count
\* has reached the cap of 25.
C1_NoRequestAtCap == ev.llm => ~ev.capped

\* the cap is reached and a pending 'ask about this' question stays unasked
C1_Witness ==
    /\ session_state.message_count >= MAX_MESSAGES_PER_SESSION
    /\ session_state.pending_concept_question # None
    /\ ~rerun
    /\ ev.op = "render"

\* the question fields of a quiz state are those a reset leaves
FieldsReset(q) ==
    /\ q.question = <<>>
    /\ q.options = EmptyDict
    /\ q.correct = ""
    /\ q.explanations = EmptyDict
    /\ q.correct_explanation = <<>>
    /\ q.user_answer = NoAnswer

\* C2: when the reply for concepts[i] does not parse, no result is recorded
\* and the machine moves to AwaitingQuestion(i+1) (fields reset, loading) if i
\* is not the last index, and to AwaitingRating if i is the last index.
C2_SkipUnparsable ==
    [][ev'.op = "generate_unparsable" =>
          /\ session_state'.quiz_state # None
          /\ session_state'.quiz_state[1].results = Quiz.results
          /\ IF Quiz.current_index + 1 < Len(Quiz.concepts)
             THEN /\ InQuizBranch(session_state')
                  /\ session_state'.quiz_state[1].current_index = Quiz.current_index + 1
                  /\ FieldsReset(session_state'.quiz_state[1])
                  /\ session_state'.quiz_state[1].loading
             ELSE InRatingBranch(session_state')]_vars

\* the last concept of a batch was skipped: the index is past the batch and
\* the quiz is not at its rating stage
C2_Witness ==
    /\ ev.op = "generate_unparsable"
    /\ HasQuiz
    /\ Quiz.current_index = Len(Quiz.concepts)
    /\ ~session_state.awaiting_rating

RECURSIVE IsSubseq(_, _)
IsSubseq(s, t) ==
    IF s = <<>> THEN TRUE
    ELSE IF t = <<>> THEN FALSE
    ELSE IF Head(s) = Head(t) THEN IsSubseq(Tail(s), Tail(t))
    ELSE IsSubseq(s, Tail(t))

ConceptIds(q) == [i \in 1..Len(q.concepts) |-> q.concepts[i].id]
ResultIds(q) == [i \in 1..Len(q.results) |-> q.results[i].concept_id]
\* the concepts the quiz has been through: up to the current one if it is
\* answered, before it otherwise
Passed(q) == q.current_index + (IF q.answered THEN 1 ELSE 0)

\* C4 as claimed: at the rating stage results[i].concept_id == concepts[i].id
\* for every index of results, also after a skipped concept.
C4_ResultsAligned ==
    AtRating => \A i \in 1..Len(Quiz.results) :
                    Quiz.results[i].concept_id = Quiz.concepts[i].id

\* C4: the concept ids of results are, in order, ids of the batch with the
\* skipped concepts left out; results[i].concept_id == concepts[i].id holds
\* as long as no concept was skipped.
C4_ResultsInBatchOrder ==
    HasQuiz =>
       /\ IsSubseq(ResultIds(Quiz), ConceptIds(Quiz))
       /\ Len(Quiz.results) = Passed(Quiz) =>
             \A i \in 1..Len(Quiz.results) :
                 Quiz.results[i].concept_id = Quiz.concepts[i].id

\* a batch of three at its rating stage, the first concept skipped and the
\* other two answered
C4_Witness ==
    /\ AtRating
    /\ Len(Quiz.concepts) = 3
    /\ ResultIds(Quiz) = <<Quiz.concepts[2].id, Quiz.concepts[3].id>>

\* C5 as claimed: at the rating stage (the quiz was not aborted by the budget)
\* results is as long as the batch.
C5_ResultsComplete ==
    AtRating => Len(Quiz.results) = Len(Quiz.concepts)

\* C5: at the rating stage results holds at least one record and at most one
\* per concept the quiz has been through, so at most the batch's length; it
\* is shorter than the batch when a concept was skipped or the quiz was ended
\* before its last concept.
C5_ResultsBounded ==
    AtRating =>
       /\ Quiz.answered
       /\ 1 <= Len(Quiz.results)
       /\ Len(Quiz.results) <= Quiz.current_index + 1
       /\ Quiz.current_index + 1 <= Len(Quiz.concepts)

\* a batch of three ended after its first question
C5_Witness ==
    /\ AtRating
    /\ Len(Quiz.concepts) = 3
    /\ Quiz.current_index = 0
    /\ Len(Quiz.results) = 1

\* the concept is one of the batch
InBatch(concepts, concept_id) ==
    \E j \in 1..Len(concepts) : concepts[j].id = concept_id

\* C6: a rating L given at the rating stage sets understanding_level to L
\* (within 1..5) and last_reviewed_at to the present for every concept of the
\* batch, answered, skipped or never reached, changes nothing else in the
\* store, and leaves the page idle: quiz_mode false, quiz_state None,
\* quiz_concepts empty, awaiting_rating false.
C6_RatingAppliesToBatch ==
    [][ev'.op \in {"rate", "rate_unanswered"} =>
          /\ InRatingBranch(session_state)
          /\ \A j \in 1..Len(session_state.quiz_concepts) :
                \E r \in Rows(db.concepts) : r.id = session_state.quiz_concepts[j].id
          /\ \E level \in RatingLevels :
                /\ level = ClampLevel(level)
                /\ Len(db'.concepts) = Len(db.concepts)
                /\ \A i \in 1..Len(db.concepts) :
                      db'.concepts[i] =
                         IF InBatch(session_state.quiz_concepts, db.concepts[i].id)
                         THEN [db.concepts[i] EXCEPT !.understanding_level = level,
                                                     !.last_reviewed_at = LocalNow]
                         ELSE db.concepts[i]
          /\ db' = [db EXCEPT !.concepts = db'.concepts]
          /\ ~session_state'.quiz_mode
          /\ session_state'.quiz_state = None
          /\ session_state'.quiz_concepts = <<>>
          /\ ~session_state'.awaiting_rating]_vars

\* a batch with a concept that got no answer was rated 5, more than a week
\* after the concepts were learned
C6_Witness ==
    /\ ev.op = "rate_unanswered"
    /\ now > TickDays * DayLength
    /\ Len(db.concepts) >= 2
    /\ \A r \in Rows(db.concepts) :
          r.understanding_level = 5 /\ r.last_reviewed_at = LocalNow

\* C7: a run that finds the message budget used up while a question is to be
\* generated ends the quiz (quiz_mode false, quiz_state None) without a
\* request to the LLM service, without the rating stage and without a change
\* to the store (no result, no understanding_level, no last_reviewed_at).
C7_BudgetAbortsToIdle ==
    [][(/\ rerun
        /\ InQuizBranch(session_state)
        /\ ~HeaderRaises(session_state)
        /\ Quiz.loading
        /\ session_state.message_count >= MAX_MESSAGES_PER_SESSION) =>
          /\ ~session_state'.quiz_mode
          /\ session_state'.quiz_state = None
          /\ ~session_state'.awaiting_rating
          /\ ~ev'.llm
          /\ db' = db]_vars

\* the budget ended a quiz that was about to generate a question
C7_Witness ==
    /\ ev.op = "quiz_limit_abort"
    /\ session_state.message_count >= MAX_MESSAGES_PER_SESSION
    /\ ~session_state.quiz_mode
    /\ session_state.quiz_state = None

\* the question fields of a quiz state hold a parsed question: an option for
\* each of the four letters and one of the letters as the correct one
FieldsPopulated(q) ==
    /\ DOMAIN q.options = LetterSet
    /\ DOMAIN q.explanations = LetterSet
    /\ q.correct \in LetterSet

Loading(q) == q.loading
ShowingQuestion(q) == ~q.loading /\ ~q.answered
ShowingAnswer(q) == ~q.loading /\ q.answered

\* C8: a quiz state is in exactly one of loading, showing-question and
\* showing-result; loading goes with answered = false and empty question
\* fields, answered with loading = false and a populated question of four
\* options and a correct letter.
C8_OneStage ==
    HasQuiz =>
       /\ Cardinality({k \in 1..3 :
             \/ k = 1 /\ Loading(Quiz)
             \/ k = 2 /\ ShowingQuestion(Quiz)
             \/ k = 3 /\ ShowingAnswer(Quiz)}) = 1
       /\ Quiz.loading => ~Quiz.answered /\ FieldsReset(Quiz)
       /\ ~Quiz.loading => FieldsPopulated(Quiz)
       /\ Quiz.answered => ~Quiz.loading /\ Quiz.user_answer \in LetterSet
       /\ ~Quiz.answered => Quiz.user_answer = NoAnswer

\* the second concept of a batch is loading after the first was answered
C8_Witness ==
    /\ HasQuiz
    /\ Quiz.loading
    /\ Quiz.current_index = 1
    /\ Len(Quiz.results) = 1

\* C9: selecting option L while a question shows appends exactly one record
\* {concept_id: concepts[i].id, correct: (L == correct)} to results and sets
\* answered; no other step of a quiz changes results; results holds at most
\* one record per concept the quiz has been through, in the batch's order.
C9_OneRecordPerAnswer ==
    [][/\ ev'.op = "select_option" =>
             /\ ShowingQuestion(Quiz)
             /\ session_state'.quiz_state # None
             /\ \E L \in LetterSet :
                   session_state'.quiz_state[1] =
                      [Quiz EXCEPT
                          !.user_answer = L,
                          !.answered = TRUE,
                          !.results = Append(@,
                              [concept_id |-> Quiz.concepts[Quiz.current_index + 1].id,
                               correct |-> (L = Quiz.correct)])]
       /\ ev'.op # "select_option" /\ session_state'.quiz_state # None =>
             \/ /\ HasQuiz
                /\ session_state'.quiz_state[1].results = Quiz.results
             \/ /\ ev'.op = "quiz_me"
                /\ session_state'.quiz_state[1].results = <<>>
       /\ session_state'.quiz_state # None =>
             LET q == session_state'.quiz_state[1]
             IN /\ Len(q.results) <= Passed(q)
                /\ IsSubseq(ResultIds(q), SubSeq(ConceptIds(q), 1, Passed(q)))
                /\ \A i, j \in 1..Len(q.results) :
                      q.results[i].concept_id = q.results[j].concept_id => i = j
      ]_vars

\* the second question of a batch was answered wrongly after the first was
\* answered rightly
C9_Witness ==
    /\ ev.op = "select_option"
    /\ HasQuiz
    /\ Quiz.current_index = 1
    /\ Len(Quiz.results) = 2
    /\ Quiz.results[1].correct
    /\ ~Quiz.results[2].correct

\* C10: while a result shows, "next" is taken only before the last index and
\* moves to the next index with the question fields reset, answered false and
\* loading true; "end" and "done" move to the rating stage and leave the quiz
\* state, results and current_index included, as it was.
C10_NextAndEnd ==
    [][/\ ev'.op = "next_question" =>
             /\ ShowingAnswer(Quiz)
             /\ Quiz.current_index + 1 < Len(Quiz.concepts)
             /\ InQuizBranch(session_state')
             /\ session_state'.quiz_state[1].current_index = Quiz.current_index + 1
             /\ FieldsReset(session_state'.quiz_state[1])
             /\ ~session_state'.quiz_state[1].answered
             /\ session_state'.quiz_state[1].loading
             /\ session_state'.quiz_state[1].results = Quiz.results
             /\ session_state'.quiz_state[1].concepts = Quiz.concepts
       /\ ev'.op = "end_quiz" =>
             /\ ShowingAnswer(Quiz)
             /\ InRatingBranch(session_state')
             /\ session_state'.quiz_state = session_state.quiz_state
             /\ session_state'.quiz_concepts = session_state.quiz_concepts
      ]_vars

\* "next" was taken twice in a batch of three: the last concept is to load
C10_Witness ==
    /\ ev.op = "next_question"
    /\ HasQuiz
    /\ Len(Quiz.concepts) = 3
    /\ Quiz.current_index = 2
    /\ Len(Quiz.results) = 2

\* C11: "Quiz Me" takes the list the quiz-candidate query gives for limit 3,
\* at most 3 concepts, in the query's order.  With a non-empty list the quiz
\* starts with that batch: active, current_index 0, loading, not answered,
\* empty results and question fields.  With an empty list the page stays idle
\* (quiz_mode false, quiz_state None).  Neither case sends a request to the
\* LLM service or writes to the store.
C11_StartQuiz ==
    [][ev'.op = "quiz_me" =>
          /\ ~ev'.llm
          /\ db' = db
          /\ \E batch \in get_concepts_for_quiz(db, QUIZ_LIMIT, now) :
                /\ Len(batch) <= QUIZ_LIMIT
                /\ IF batch = <<>>
                   THEN /\ ~session_state'.quiz_mode
                        /\ session_state'.quiz_state = None
                        /\ session_state'.quiz_concepts = <<>>
                   ELSE /\ session_state'.quiz_mode
                        /\ ~session_state'.awaiting_rating
                        /\ session_state'.quiz_concepts = batch
                        /\ session_state'.quiz_state # None
                        /\ LET q == session_state'.quiz_state[1]
                           IN /\ q.active
                              /\ q.concepts = batch
                              /\ q.current_index = 0
                              /\ q.loading
                              /\ ~q.answered
                              /\ q.results = <<>>
                              /\ FieldsReset(q)]_vars

\* "Quiz Me" was pressed while every stored concept was rated 5 and reviewed
\* within the week: no quiz started
C11_Witness ==
    /\ ev.op = "quiz_me"
    /\ Len(db.concepts) > 0
    /\ get_concepts_for_quiz(db, QUIZ_LIMIT, now) = {<<>>}
    /\ ~session_state.quiz_mode
    /\ session_state.quiz_state = None

\* C12: update_concept_understanding stores 1 for a level below 1, 5 for a
\* level above 5 and the level itself otherwise (9 is stored as 5, -3 as 1),
\* with the time of the call, in the row of the concept and in no other row;
\* after every step of the store every understanding_level is in 1..5.
C12_ClampedLevel ==
    [][/\ ev'.op = "update_concept_understanding" =>
             /\ Len(db'.concepts) = Len(db.concepts)
             /\ \A i \in 1..Len(db.concepts) :
                   db'.concepts[i] =
                      IF db.concepts[i].id = ev'.arg.concept_id
                      THEN [db.concepts[i] EXCEPT
                               !.understanding_level =
                                   IF ev'.arg.level < 1 THEN 1
                                   ELSE IF ev'.arg.level > 5 THEN 5
                                   ELSE ev'.arg.level,
                               !.last_reviewed_at = LocalNow]
                      ELSE db.concepts[i]
       /\ \A r \in Rows(db'.concepts) : r.understanding_level \in 1..5
      ]_vars

\* level -3 was given for a concept that had been raised to 5 by level 9: it
\* is stored as 1
C12_Witness ==
    /\ ev.op = "update_concept_understanding"
    /\ ev.arg.level = -3
    /\ \E r \in Rows(db.concepts) :
          /\ r.id = ev.arg.concept_id
          /\ r.understanding_level = 1
          /\ r.last_reviewed_at # NULL
    /\ \E r \in Rows(db.concepts) : r.understanding_level = 5

\* the assistant messages a step stored
NewReplies(d, d2) ==
    {m \in Rows(d2.messages) \ Rows(d.messages) : m.role = "assistant"}

\* a stored reply of the step mentions the concept name
MentionedIn(replies, name) ==
    \E m \in replies : Contains(lower(m.content), lower(name))

\* C13: the store holds at most one row per concept name.  A step that stores
\* an assistant message mentioning a name not yet stored creates its row with
\* times_discussed 1, understanding_level 1 and last_reviewed_at NULL; one
\* mentioning a stored name adds exactly 1 to its times_discussed and changes
\* nothing else of the row; no other step changes times_discussed or creates
\* a row.
C13_OneRowPerName ==
    [][/\ \A i, j \in 1..Len(db'.concepts) :
             db'.concepts[i].name = db'.concepts[j].name => i = j
       /\ \A r2 \in Rows(db'.concepts) :
             LET mentioned == MentionedIn(NewReplies(db, db'), r2.name)
                 old == {r \in Rows(db.concepts) : r.name = r2.name}
             IN IF old = {}
                THEN /\ mentioned
                     /\ r2.times_discussed = 1
                     /\ r2.understanding_level = 1
                     /\ r2.last_reviewed_at = NULL
                ELSE \E r \in old :
                        IF mentioned
                        THEN r2 = [r EXCEPT !.times_discussed = @ + 1]
                        ELSE /\ r2.times_discussed = r.times_discussed
                             /\ r2.id = r.id
                             /\ r2.category = r.category
      ]_vars

\* a second assistant message has just mentioned a stored concept: one row,
\* times_discussed 2
C13_Witness ==
    /\ ev.llm
    /\ \E m \in Rows(db.messages) :
          /\ m.role = "assistant"
          /\ m.id = db.sqlite_sequence.messages
          /\ \E r \in Rows(db.concepts) :
                /\ Contains(lower(m.content), lower(r.name))
                /\ r.times_discussed = 2
                /\ Cardinality({i \in 1..Len(db.concepts) :
                                   db.concepts[i].name = r.name}) = 1

\* C14: deleting a session removes its row, its messages and its concept
\* mentions, and nothing else: the rows of the other sessions, every concept
\* row, the AUTOINCREMENT counters and the page's state (the current session,
\* which is never the deleted one) are as before.
C14_DeleteSession ==
    [][ev'.op = "delete_session" =>
          \E s \in {r.id : r \in Rows(db.sessions)} :
             /\ s # session_state.session_id
             /\ db'.sessions = SelectSeq(db.sessions, LAMBDA r : r.id # s)
             /\ db'.messages = SelectSeq(db.messages, LAMBDA r : r.session_id # s)
             /\ db'.concept_mentions =
                    SelectSeq(db.concept_mentions, LAMBDA r : r.session_id # s)
             /\ db'.concepts = db.concepts
             /\ db'.sqlite_sequence = db.sqlite_sequence
             /\ session_state' = session_state
             /\ \E r \in Rows(db'.sessions) : r.id = session_state.session_id]_vars

\* a session with a reply that mentioned concepts was deleted: its messages
\* and mentions are gone, the concepts are still stored
C14_Witness ==
    /\ ev.op = "delete_session"
    /\ db.sqlite_sequence.concept_mentions > 0
    /\ db.concept_mentions = <<>>
    /\ db.messages = <<>>
    /\ Len(db.sessions) = 1
    /\ Len(db.concepts) > 0

\* the assistant messages stored under a session id
StoredReplies(session_id) ==
    {m \in Rows(db.messages) : m.session_id = session_id /\ m.role = "assistant"}

\* C15: no stored session has more than 25 assistant messages stored under
\* its id.
C15_RepliesWithinCap ==
    \A s \in Rows(db.sessions) :
       Cardinality(StoredReplies(s.id)) <= MAX_MESSAGES_PER_SESSION

\* a session that was left and loaded again holds 26 replies, while the page
\* counts 25
C15_Witness ==
    /\ session_state.message_count = MAX_MESSAGES_PER_SESSION
    /\ Cardinality(StoredReplies(session_state.session_id))
          = MAX_MESSAGES_PER_SESSION + 1
    /\ Len(session_state.messages) = 2 * (MAX_MESSAGES_PER_SESSION + 1)

\* C16: a chat turn whose LLM call fails stores the user's message and
\* nothing else: no assistant message in the store or the transcript, no
\* concept and no mention, message_count and the LLM history as before; the
\* run that follows sends no request (no retry).
C16_FailedTurn ==
    [][/\ ev'.op \in {"chat_failed", "ask_about_failed"} =>
             /\ ev'.llm
             /\ NewReplies(db, db') = {}
             /\ Len(db'.messages) = Len(db.messages) + 1
             /\ SubSeq(db'.messages, 1, Len(db.messages)) = db.messages
             /\ db'.messages[Len(db'.messages)].role = "user"
             /\ db'.messages[Len(db'.messages)].session_id = session_state.session_id
             /\ db'.concepts = db.concepts
             /\ db'.concept_mentions = db.concept_mentions
             /\ db'.sessions = db.sessions
             /\ session_state'.message_count = session_state.message_count
             /\ session_state'.pydantic_messages = session_state.pydantic_messages
             /\ session_state'.messages =
                   Append(session_state.messages,
                          [role |-> "user",
                           content |-> db'.messages[Len(db'.messages)].content])
             /\ session_state'.pending_concept_question = None
       /\ ev.op \in {"chat_failed", "ask_about_failed"} => ~ev'.llm
      ]_vars

\* the 'ask about this' turn of a stored concept failed: the question is in
\* the store and the transcript, unanswered
C16_Witness ==
    /\ ev.op = "ask_about_failed"
    /\ Len(db.concepts) > 0
    /\ session_state.pending_concept_question = None
    /\ Len(session_state.messages) = 1
    /\ session_state.messages[1].role = "user"
    /\ session_state.message_count = 0

\* the messages of a session in the order they were appended
Appended(d, session_id) ==
    SelectSeq(d.messages, LAMBDA r : r.session_id = session_id)

\* C17: loading a session lists its messages in the order they were appended
\* (the user's message of a turn before its reply), also when messages carry
\* the same created_at; and while a session exists its stored messages only
\* grow at the end.
C17_ListedInAppendOrder ==
    [][/\ ev'.op = "load_session" =>
             session_state'.messages =
                [i \in 1..Len(Appended(db, session_state'.session_id)) |->
                    [role |-> Appended(db, session_state'.session_id)[i].role,
                     content |-> Appended(db, session_state'.session_id)[i].content]]
       /\ \A s \in Rows(db.sessions) :
             (\E s2 \in Rows(db'.sessions) : s2.id = s.id) =>
                /\ Len(Appended(db', s.id)) >= Len(Appended(db, s.id))
                /\ SubSeq(Appended(db', s.id), 1, Len(Appended(db, s.id)))
                      = Appended(db, s.id)
      ]_vars

\* a session whose two messages were stored in the same clock unit was
\* loaded with the reply listed before the user's message
C17_Witness ==
    /\ ev.op = "load_session"
    /\ Len(session_state.messages) = 2
    /\ session_state.messages[1].role = "assistant"
    /\ session_state.messages[2].role = "user"
    /\ Appended(db, session_state.session_id)[1].role = "user"

SessionRow(d, session_id) ==
    CHOOSE r \in Rows(d.sessions) : r.id = session_id

\* C18: "+ New Session" marks the session that was current as ended
\* (ended_at set), creates a new session that is still open, and makes it
\* current with an empty transcript, an empty LLM history and message_count 0;
\* no other session row changes.
C18_NewSession ==
    [][ev'.op = "new_session" =>
          /\ session_state.session_id # NULL =>
                /\ SessionRow(db, session_state.session_id).ended_at = NULL
                      => SessionRow(db', session_state.session_id).ended_at = LocalNow
                /\ SessionRow(db', session_state.session_id).ended_at # NULL
          /\ session_state'.session_id \notin {r.id : r \in Rows(db.sessions)}
          /\ session_state'.session_id \in {r.id : r \in Rows(db'.sessions)}
          /\ SessionRow(db', session_state'.session_id).ended_at = NULL
          /\ \A r \in Rows(db.sessions) :
                r.id # session_state.session_id => r \in Rows(db'.sessions)
          /\ Len(db'.sessions) = Len(db.sessions) + 1
          /\ session_state'.messages = <<>>
          /\ session_state'.pydantic_messages = <<>>
          /\ session_state'.message_count = 0
          /\ Appended(db', session_state'.session_id) = <<>>
          /\ db'.messages = db.messages
      ]_vars

\* New Session was pressed in a session that held an answered chat turn
C18_Witness ==
    /\ ev.op = "new_session"
    /\ \E r \in Rows(db.sessions) :
          /\ r.id # session_state.session_id
          /\ r.ended_at # NULL
          /\ \E m \in Rows(db.messages) :
                m.session_id = r.id /\ m.role = "assistant"
    /\ SessionRow(db, session_state.session_id).ended_at = NULL
    /\ session_state.message_count = 0

\* the lower-cased keywords of the table that occur in a text
Hits(text) ==
    {lower(e.name) : e \in {k \in Rows(FlattenKeywords(CONCEPT_KEYWORDS)) :
                              Contains(lower(text), lower(k.name))}}

\* the mention rows that point at a message
MentionsOf(d, message_id) ==
    {x \in Rows(d.concept_mentions) : x.message_id = message_id}

\* C19: a stored assistant message has exactly one mention row for each
\* distinct concept its text contains, and no two mention rows share a
\* (concept_id, message_id); a stored user message has no mention row, and
\* every stored concept comes from the text of an assistant message.
C19_OneMentionPerHit ==
    /\ \A m \in Rows(db.messages) :
          LET rows == MentionsOf(db, m.id)
          IN IF m.role = "assistant"
             THEN LET hits == Hits(m.content)
                  IN /\ {lower(c.name) : c \in {r \in Rows(db.concepts) :
                            \E x \in rows : x.concept_id = r.id}} = hits
                     /\ Cardinality(rows) = Cardinality(hits)
                     /\ \A x \in rows : x.session_id = m.session_id
             ELSE rows = {}
    /\ \A i, j \in 1..Len(db.concept_mentions) :
          /\ db.concept_mentions[i].concept_id = db.concept_mentions[j].concept_id
          /\ db.concept_mentions[i].message_id = db.concept_mentions[j].message_id
          => i = j
    /\ \A x \in Rows(db.concept_mentions) :
          \E m \in Rows(db.messages) : m.id = x.message_id
    /\ \A r \in Rows(db.concepts) :
          \E x \in Rows(db.concept_mentions) : x.concept_id = r.id

\* a reply whose one keyword is listed under two categories is stored with a
\* single mention, next to the user's message of the turn
C19_Witness ==
    \E m \in Rows(db.messages) :
       /\ m.role = "assistant"
       /\ m.content = <<"e","x","p","l","o","i","t">>
       /\ Cardinality(MentionsOf(db, m.id)) = 1
       /\ \E u \in Rows(db.messages) :
             u.role = "user" /\ u.session_id = m.session_id /\ u.id < m.id

\* time units since the row was last reviewed: last_reviewed_at holds the
\* host's local time of the review, the clock `now` is UTC
ReviewAge(r) == now - (r.last_reviewed_at - tz)

\* C20: get_concepts_for_quiz(limit) returns at most `limit` stored concepts,
\* each with understanding_level < 4, or never reviewed, or last reviewed more
\* than 7 days ago, ordered by ascending understanding_level, then unreviewed
\* before reviewed, then oldest review first; a concept rated 4 or 5 that was
\* reviewed less than 7 days ago is not returned.
C20_QuizCandidates ==
    [][ev'.op = "get_concepts_for_quiz" =>
          LET result == ev'.result
              limit == ev'.arg
          IN /\ Len(result) <= limit
             /\ \A i \in 1..Len(result) :
                   /\ result[i] \in Rows(db.concepts)
                   /\ \/ result[i].understanding_level < 4
                      \/ result[i].last_reviewed_at = NULL
                      \/ ReviewAge(result[i]) > REVIEW_DAYS * DayLength
                   /\ ~ /\ result[i].understanding_level >= 4
                        /\ result[i].last_reviewed_at # NULL
                        /\ ReviewAge(result[i]) < REVIEW_DAYS * DayLength
             /\ \A i, j \in 1..Len(result) :
                   i < j =>
                      /\ result[i].understanding_level <= result[j].understanding_level
                      /\ result[i].understanding_level = result[j].understanding_level
                            => /\ NullFlag(result[i]) <= NullFlag(result[j])
                               /\ NullFlag(result[i]) = NullFlag(result[j])
                                     => result[i].last_reviewed_at
                                           <= result[j].last_reviewed_at
      ]_vars

\* on a host whose local time is behind UTC the query returned a concept
\* rated 4 or 5 whose review is less than 7 days old
C20_Witness ==
    /\ ev.op = "get_concepts_for_quiz"
    /\ tz < 0
    /\ \E i \in 1..Len(ev.result) :
          /\ ev.result[i].understanding_level >= 4
          /\ ev.result[i].last_reviewed_at # NULL
          /\ ReviewAge(ev.result[i]) < REVIEW_DAYS * DayLength
          /\ ev.result[i] \in Rows(db.concepts)

\* position of a row in a list (0 when absent)
IndexOf(seq, r) ==
    IF \E i \in 1..Len(seq) : seq[i] = r
    THEN CHOOSE i \in 1..Len(seq) : seq[i] = r
    ELSE 0

\* C21: get_concepts_needing_review() returns exactly the stored concepts
\* with understanding_level < 3, or never reviewed, or last reviewed more than
\* 7 days ago (a concept rated 3 or more and reviewed less than 7 days ago is
\* not returned), each once, ordered unreviewed first, then by ascending
\* understanding_level, then oldest review first; an unreviewed concept with
\* a higher level than a reviewed one precedes it here and follows it in the
\* quiz-candidate list.
C21_NeedingReview ==
    [][ev'.op = "get_concepts_needing_review" =>
          LET result == ev'.result
          IN /\ \A r \in Rows(db.concepts) :
                   /\ \/ r.understanding_level < 3
                      \/ r.last_reviewed_at = NULL
                      \/ ReviewAge(r) > REVIEW_DAYS * DayLength
                      => r \in Rows(result)
                   /\ /\ r.understanding_level >= 3
                      /\ r.last_reviewed_at # NULL
                      /\ ReviewAge(r) < REVIEW_DAYS * DayLength
                      => r \notin Rows(result)
             /\ Rows(result) \subseteq Rows(db.concepts)
             /\ Cardinality(Rows(result)) = Len(result)
             /\ \A i, j \in 1..Len(result) :
                   i < j =>
                      /\ NullFlag(result[i]) <= NullFlag(result[j])
                      /\ NullFlag(result[i]) = NullFlag(result[j]) =>
                            /\ result[i].understanding_level
                                  <= result[j].understanding_level
                            /\ result[i].understanding_level
                                  = result[j].understanding_level
                                  => result[i].last_reviewed_at
                                        <= result[j].last_reviewed_at
             /\ \A a, b \in Rows(result) :
                   /\ a.last_reviewed_at = NULL
                   /\ b.last_reviewed_at # NULL
                   /\ a.understanding_level > b.understanding_level
                   => /\ IndexOf(result, a) < IndexOf(result, b)
                      /\ \A quiz \in get_concepts_for_quiz(db, Len(db.concepts), now) :
                            IndexOf(quiz, b) < IndexOf(quiz, a)
      ]_vars

\* on a host whose local time is behind UTC the review list holds a concept
\* rated 3 or more whose review is less than 7 days old
C21_Witness ==
    /\ ev.op = "get_concepts_needing_review"
    /\ tz < 0
    /\ \E i \in 1..Len(ev.result) :
          /\ ev.result[i].understanding_level >= 3
          /\ ev.result[i].last_reviewed_at # NULL
          /\ ReviewAge(ev.result[i]) < REVIEW_DAYS * DayLength
          /\ ev.result[i] \in Rows(db.concepts)

\* C22: for every text, extract_concepts returns no two entries whose names
\* are equal ignoring case, and every entry is a keyword of the table as
\* spelled there, with the category under which the table lists it first.
C22_ExtractConcepts ==
    [][ev'.op = "extract_concepts" =>
          LET result == ev'.result
              all == FlattenKeywords(CONCEPT_KEYWORDS)
          IN /\ \A i, j \in 1..Len(result) :
                   lower(result[i].name) = lower(result[j].name) => i = j
             /\ \A i \in 1..Len(result) :
                   \E k \in 1..Len(all) :
                      /\ all[k].name = result[i].name
                      /\ all[k].category = result[i].category
                      /\ \A k2 \in 1..(k - 1) :
                            lower(all[k2].name) # lower(all[k].name)
      ]_vars

\* a text with Exploit and sha-1 in it was given: exploit is returned once,
\* under Malware, and SHA-1 as the table spells it
C22_Witness ==
    /\ ev.op = "extract_concepts"
    /\ Contains(ev.arg, <<"E","x","p","l","o","i","t">>)
    /\ Contains(ev.arg, <<"s","h","a","-","1">>)
    /\ Cardinality({i \in 1..Len(ev.result) :
                       ev.result[i].name = <<"e","x","p","l","o","i","t">>}) = 1
    /\ \E i \in 1..Len(ev.result) :
          /\ ev.result[i].name = <<"e","x","p","l","o","i","t">>
          /\ ev.result[i].category = "Malware"
    /\ \E i \in 1..Len(ev.result) : ev.result[i].name = <<"S","H","A","-","1">>

\* the lines of a reply that carry the marker, and the text of the first
LinesOf(lines, tag) == SelectSeq(lines, LAMBDA ln : ln.tag = tag)
BodyOf(lines, tag) == LinesOf(lines, tag)[1].body

\* the markers of the part before the per-letter explanations, in order
RequiredMarks ==
    <<QUESTION_MARK, OptionMark("A"), OptionMark("B"), OptionMark("C"),
      OptionMark("D"), CORRECT_MARK, CORRECT_EXPLANATION_MARK>>

\* the reply has the lines of the format before the per-letter explanations,
\* in order, with a question text and one option letter after CORRECT:
HasRequiredPart(lines) ==
    /\ Len(lines) >= Len(RequiredMarks)
    /\ \A i \in 1..Len(RequiredMarks) : lines[i].tag = RequiredMarks[i]
    /\ BodyOf(lines, QUESTION_MARK) # <<>>
    /\ \E l \in LetterSet : BodyOf(lines, CORRECT_MARK) = <<l>>

\* the per-letter explanation lines the reply has
ExplainedLetters(lines) ==
    {l \in LetterSet : LinesOf(lines, ExplanationMark(l)) # <<>>}

WellFormed(lines) ==
    /\ HasRequiredPart(lines)
    /\ ExplainedLetters(lines) = LetterSet

\* C23: parsing a well-formed reply gives a result with exactly the options
\* A, B, C and D, each holding the text of its own line, and with the letter
\* the CORRECT: line names.
C23_WellFormedParsed ==
    [][ev'.op = "parse_quiz_response" /\ WellFormed(ev'.arg) =>
          /\ ev'.result # None
          /\ DOMAIN ev'.result[1].options = LetterSet
          /\ \A l \in LetterSet :
                ev'.result[1].options[l] = BodyOf(ev'.arg, OptionMark(l))
          /\ ev'.result[1].correct \in LetterSet
          /\ <<ev'.result[1].correct>> = BodyOf(ev'.arg, CORRECT_MARK)
      ]_vars

\* a well-formed reply whose question ends in "(2FA)" was parsed: option A
\* does not hold the text of the A) line
C23_Witness ==
    /\ ev.op = "parse_quiz_response"
    /\ WellFormed(ev.arg)
    /\ BodyOf(ev.arg, QUESTION_MARK) = <<"(","2","F","A",")">>
    /\ ev.result # None
    /\ ev.result[1].options["A"] # BodyOf(ev.arg, OptionMark("A"))
    /\ ev.result[1].options["B"] = BodyOf(ev.arg, OptionMark("B"))

\* the reply lacks a required piece: the question text, an option line, or a
\* CORRECT: line that names an option letter
LacksPiece(lines) ==
    \/ LinesOf(lines, QUESTION_MARK) = <<>>
    \/ BodyOf(lines, QUESTION_MARK) = <<>>
    \/ \E l \in LetterSet : LinesOf(lines, OptionMark(l)) = <<>>
    \/ LinesOf(lines, CORRECT_MARK) = <<>>
    \/ \A l \in LetterSet : BodyOf(lines, CORRECT_MARK) # <<l>>

\* C24: parsing a reply that lacks a required piece returns no result.
C24_MissingPieceFails ==
    [][ev'.op = "parse_quiz_response" /\ LacksPiece(ev'.arg) =>
          ev'.result = None]_vars

\* a reply whose CORRECT: line names no letter was parsed to a question
\* whose correct letter is C
C24_Witness ==
    /\ ev.op = "parse_quiz_response"
    /\ LinesOf(ev.arg, CORRECT_MARK) # <<>>
    /\ BodyOf(ev.arg, CORRECT_MARK) = <<>>
    /\ LinesOf(ev.arg, QUESTION_MARK) # <<>>
    /\ BodyOf(ev.arg, QUESTION_MARK) = <<"q">>
    /\ ev.result # None
    /\ ev.result[1].correct = "C"

\* C25: in an otherwise well-formed reply any of the four per-letter
\* explanation lines may be missing, all four included: the parse gives a
\* result in which each missing explanation is the empty text and each
\* present one the text of its line.
C25_MissingExplanations ==
    [][ev'.op = "parse_quiz_response" /\ HasRequiredPart(ev'.arg) =>
          /\ ev'.result # None
          /\ \A l \in LetterSet :
                ev'.result[1].explanations[l] =
                   IF l \in ExplainedLetters(ev'.arg)
                   THEN BodyOf(ev'.arg, ExplanationMark(l))
                   ELSE <<>>
      ]_vars

\* a reply without any per-letter explanation, otherwise well-formed, was
\* parsed to no result
C25_Witness ==
    /\ ev.op = "parse_quiz_response"
    /\ HasRequiredPart(ev.arg)
    /\ ExplainedLetters(ev.arg) = {}
    /\ ev.result = None

\* the steps of the quiz before the rating: start, generation with each of
\* its outcomes, the abort at the message limit, the failing header, an
\* answer, next and end
QuizSteps ==
    {"quiz_me", "generate_parsed", "generate_unparsable", "generate_error",
     "quiz_limit_abort", "quiz_limit_abort_question", "index_error",
     "select_option", "next_question", "end_quiz"}

\* C26: no step of a quiz before the rating writes to the store: the start,
\* every outcome of a question's generation, an answer, next, end, an abort
\* and a run that only renders the quiz leave the four tables as they were.
C26_QuizLeavesStore ==
    [][\/ ev'.op \in QuizSteps
       \/ ev'.op = "render" /\ (quiz_active(session_state) \/ session_state.awaiting_rating)
       => db' = db]_vars

\* a quiz was aborted by a failure of the service; the store still holds the
\* conversation and its concepts, none of them reviewed
C26_Witness ==
    /\ ev.op = "generate_error"
    /\ ~session_state.quiz_mode
    /\ session_state.quiz_state = None
    /\ Len(db.messages) >= 2
    /\ Len(db.concepts) >= 2
    /\ \A r \in Rows(db.concepts) : r.last_reviewed_at = NULL

\* C27: after a step that changes the current session ("+ New Session",
\* loading a stored session, the confirmed "Reset All Data") no quiz is open:
\* quiz_mode is false, quiz_state is None and no rating is awaited.
C27_QuizEndsWithSession ==
    [][ev'.op \in {"new_session", "load_session", "reset_confirm"} =>
          /\ session_state'.session_id # session_state.session_id
          /\ ~session_state'.quiz_mode
          /\ session_state'.quiz_state = None
          /\ ~session_state'.awaiting_rating
      ]_vars

\* "+ New Session" was pressed while a question was on the page: the quiz is
\* open in the new session, with its generated question
C27_Witness ==
    /\ ev.op = "new_session"
    /\ quiz_active(session_state)
    /\ ~session_state.quiz_state[1].loading
    /\ session_state.messages = <<>>
    /\ SessionRow(db, session_state.session_id).ended_at = NULL
    /\ Appended(db, session_state.session_id) = <<>>

\* C28: while a quiz is open (quiz_mode true, quiz_state not None) its
\* current_index is an index of the batch: 0 <= current_index < len(concepts).
C28_IndexInBatch ==
    session_state.quiz_mode /\ session_state.quiz_state # None =>
        /\ 0 <= session_state.quiz_state[1].current_index
        /\ session_state.quiz_state[1].current_index
              < Len(session_state.quiz_state[1].concepts)

\* a run of the page raised IndexError in render_quiz_header: the quiz is
\* open, not yet at its rating, and its index is the length of the batch
C28_Witness ==
    /\ ev.op = "index_error"
    /\ session_state.quiz_mode
    /\ session_state.quiz_state # None
    /\ ~session_state.awaiting_rating
    /\ session_state.quiz_state[1].current_index
          = Len(session_state.quiz_state[1].concepts)
    /\ session_state.quiz_state[1].loading

\* the steps the user takes in the sidebar, and time passing
SidebarSteps ==
    {"new_session", "load_session", "delete_session", "quiz_me",
     "ask_about_click", "reset_request", "reset_cancel", "reset_confirm", "tick"}

\* C29: a generated and parsed question is presented: the run after its
\* generation shows it (quiz open, same quiz state, the question neither
\* loading nor answered), whatever the message count, and while it is shown
\* the quiz changes only when the user presses an option.
C29_GeneratedIsPresented ==
    [][/\ ev.op = "generate_parsed" =>
             /\ ev'.op = "render"
             /\ InQuizBranch(session_state')
             /\ session_state'.quiz_state = session_state.quiz_state
             /\ ShowingQuestion(session_state'.quiz_state[1])
       /\ /\ InQuizBranch(session_state)
          /\ ShowingQuestion(session_state.quiz_state[1])
          /\ ev'.op \notin SidebarSteps \cup {"render"}
          => ev'.op = "select_option"
      ]_vars

\* the question whose generation brought the message count to the cap was
\* dropped by the next run: the quiz is closed and the question was not shown
C29_Witness ==
    /\ ev.op = "quiz_limit_abort_question"
    /\ session_state.message_count = MAX_MESSAGES_PER_SESSION
    /\ ~session_state.quiz_mode
    /\ session_state.quiz_state = None
    /\ ~rerun

\* C30: message_count stays in 0..25; a chat turn that got its reply (typed
\* or 'ask about this') and a quiz question that was generated and parsed add
\* exactly 1; "+ New Session", loading a session, the confirmed reset and the
\* first load set it to 0; every other step, a failed request and an
\* unparsable quiz reply included, leaves it as it is.
C30_MessageCount ==
    [][/\ session_state'.message_count \in 0..MAX_MESSAGES_PER_SESSION
       /\ IF ev'.op \in {"chat", "ask_about", "generate_parsed"}
          THEN session_state'.message_count = session_state.message_count + 1
          ELSE IF ev'.op \in {"new_session", "load_session", "reset_confirm",
                              "first_load"}
          THEN session_state'.message_count = 0
          ELSE session_state'.message_count = session_state.message_count
      ]_vars

\* the 25th counted request of a session was a quiz question, generated
\* after an unparsable reply had been skipped without being counted
C30_Witness ==
    /\ ev.op = "generate_parsed"
    /\ session_state.message_count = MAX_MESSAGES_PER_SESSION
    /\ HasQuiz
    /\ Quiz.current_index = 1
    /\ Quiz.results = <<>>

\* the steps of an open quiz: a run of the page that renders it, generates
\* its question or closes it, and the buttons of the question and the result
QuizStep ==
    \/ RenderPage
    \/ QuizLimitAbort
    \/ GenerateParsed
    \/ GenerateUnparsable
    \/ GenerateError
    \/ SelectOption
    \/ NextQuestion
    \/ EndQuiz

\* the steps that close a quiz without a rating: the service failed, or the
\* message budget of the session is exhausted
QuizAborted ==
    ev.op \in {"generate_error", "quiz_limit_abort", "quiz_limit_abort_question"}

\* C31: when the page runs are scheduled and the user keeps answering,
\* pressing Next / Done and rating, every started quiz reaches its rating
\* stage unless the service fails or the message budget runs out, every
\* rating stage is left for the chat, and every state of an open quiz has a
\* quiz step enabled.
C31_QuizCompletes ==
    /\ [](InQuizBranch(session_state) => ENABLED QuizStep)
    /\ (InQuizBranch(session_state) ~> (AtRating \/ QuizAborted))
    /\ (AtRating ~> InChatBranch(session_state))

\* the page of an open quiz after the run that raised IndexError: no run is
\* pending and the main area has no button
C31_Witness ==
    /\ ~rerun
    /\ ev.op = "index_error"
    /\ InQuizBranch(session_state)
    /\ HeaderRaises(session_state)
    /\ ~ENABLED QuizStep

\* C32: once the first run has established a session the current session
\* id is never None again and always is the id of a row of the sessions
\* table; a delete button removes one session other than the current one
\* and leaves the current id as it is; the confirmed "Reset All Data" leaves
\* exactly one session, open, never used before, and current.
C32_CurrentSessionStored ==
    [][/\ session_state.session_id # NULL => session_state'.session_id # NULL
       /\ session_state'.session_id # NULL =>
             \E r \in Rows(db'.sessions) : r.id = session_state'.session_id
       /\ ev'.op = "delete_session" =>
             /\ session_state'.session_id = session_state.session_id
             /\ \E s \in Rows(db.sessions) :
                   /\ s.id # session_state.session_id
                   /\ Rows(db'.sessions) = Rows(db.sessions) \ {s}
       /\ ev'.op = "reset_confirm" =>
             /\ Len(db'.sessions) = 1
             /\ db'.sessions[1].id = session_state'.session_id
             /\ db'.sessions[1].ended_at = NULL
             /\ db.sqlite_sequence.sessions < session_state'.session_id
      ]_vars

\* a session was deleted while an earlier session, loaded again, was
\* current: its row is the only one left
C32_Witness ==
    /\ ev.op = "delete_session"
    /\ Len(db.sessions) = 1
    /\ db.sessions[1].id = session_state.session_id
    /\ db.sessions[1].ended_at # NULL
    /\ session_state.session_id < db.sqlite_sequence.sessions

\* C33: every stored session other than the current one has ended_at set,
\* and a session whose ended_at is set gets no further message.
C33_OthersEnded ==
    [][/\ \A r \in Rows(db'.sessions) :
             r.id # session_state'.session_id => r.ended_at # NULL
       /\ \A r \in Rows(db.sessions) :
             r.ended_at # NULL =>
                Len(Appended(db', r.id)) <= Len(Appended(db, r.id))
      ]_vars

\* an ended session was loaded and a chat turn was stored in it, while the
\* session that was left for it is stored without ended_at
C33_Witness ==
    /\ ev.op \in {"chat", "chat_failed"}
    /\ SessionRow(db, session_state.session_id).ended_at # NULL
    /\ \E m \in Rows(db.messages) :
          /\ m.session_id = session_state.session_id
          /\ m.created_at > SessionRow(db, session_state.session_id).ended_at
    /\ \E r \in Rows(db.sessions) :
          r.id # session_state.session_id /\ r.ended_at = NULL

====
